---- MODULE Spec2Model ----
(***************************************************************************)
(* Artifact store, stage envelope, pipeline runner, replay and lineage of  *)
(* the knowledge ingestion engine.                                         *)
(*                                                                         *)
(* Artifact ids are sequences of characters, so that prefix matching       *)
(* (glob), the regular expression _v\d+$ and the lexical order of          *)
(* sorted() are computed the way the code computes them.  The fixed type   *)
(* prefix and the eight-digit date are each one token.  Confidence values  *)
(* are counted in hundredths: the floats of the code differ from them by   *)
(* less than 1e-15, so that a comparison with a threshold can differ from  *)
(* the code's only for a value that is a hundredth equal to the threshold. *)
(* The transcript text is represented by what the extraction heuristics    *)
(* read from it.                                                           *)
(***************************************************************************)
EXTENDS Integers, Sequences, FiniteSets, TLC

\* ------------------------------------------------------------------ bounds

\* number of replays that add an artifact in one behaviour
MaxReplays == 2

\* run identifiers given to ingest
RunIds == { << "r" >> }

\* the UTC dates on which stages run
Dates == { "20260101" }

\* ------------------------------------------------------------ id strings

DigitChars == <<"0", "1", "2", "3", "4", "5", "6", "7", "8", "9">>

IsDigit(c) == \E i \in 1..10 : DigitChars[i] = c

\* str(n) for 0 <= n < 100
Digits(n) ==
    IF n < 10 THEN << DigitChars[n + 1] >>
    ELSE << DigitChars[(n \div 10) + 1], DigitChars[(n % 10) + 1] >>

\* the code point order of the characters that occur in ids; a type prefix
\* stands at the first position only and is ordered by its first letter, a
\* date stands at the third position only and is ordered among the dates
Ord(c) ==
    IF IsDigit(c) THEN 47 + (CHOOSE i \in 1..10 : DigitChars[i] = c)
    ELSE CASE c = "_" -> 95
           [] c = "r" -> 114
           [] c = "v" -> 118
           [] c = "contextualized" -> 99
           [] c = "extraction" -> 101
           [] c = "insight" -> 105
           [] c = "transcript" -> 116
           [] c = "validated" -> 118
           [] c = "20260102" -> 51
           [] OTHER -> 50

\* mutant: the id is built without the run id
MkIdNoRun(prefix, date, run, version) ==
    << prefix, "_", date, "_", "r", "_", "v" >> \o Digits(version)

\* f"{prefix}_{date_str}_{run_id}_v{version}"
MkId(prefix, date, run, version) ==
    << prefix, "_", date, "_" >> \o run \o << "_", "v" >> \o Digits(version)

\* number of digit characters at the end of s
RECURSIVE TrailingDigits(_)
TrailingDigits(s) ==
    IF s = << >> \/ ~IsDigit(s[Len(s)]) THEN 0
    ELSE 1 + TrailingDigits(SubSeq(s, 1, Len(s) - 1))

\* whether re.search(r'_v\d+$', s) matches
HasVersionSuffix(s) ==
    LET k == TrailingDigits(s) IN
    /\ k >= 1
    /\ Len(s) >= k + 2
    /\ s[Len(s) - k] = "v"
    /\ s[Len(s) - k - 1] = "_"

\* re.sub(r'_v\d+$', '', s)
StripVersion(s) ==
    IF HasVersionSuffix(s) THEN SubSeq(s, 1, Len(s) - TrailingDigits(s) - 2)
    ELSE s

\* the value of a digit string
RECURSIVE DigitsValue(_)
DigitsValue(s) ==
    IF s = << >> THEN 0
    ELSE 10 * DigitsValue(SubSeq(s, 1, Len(s) - 1)) + (Ord(s[Len(s)]) - 48)

\* the number N of the trailing _v<N>, 0 when there is none
VersionOf(s) ==
    IF HasVersionSuffix(s)
    THEN DigitsValue(SubSeq(s, Len(s) - TrailingDigits(s) + 1, Len(s)))
    ELSE 0

\* str.startswith: what glob(f"{base_name}*.json") matches
IsPrefix(p, s) == Len(p) <= Len(s) /\ SubSeq(s, 1, Len(p)) = p

\* s < t in Python's string order
RECURSIVE StrLess(_, _)
StrLess(s, t) ==
    IF t = << >> THEN FALSE
    ELSE IF s = << >> THEN TRUE
    ELSE IF s[1] # t[1] THEN Ord(s[1]) < Ord(t[1])
    ELSE StrLess(Tail(s), Tail(t))

\* positions of "_" in s, for str.split('_')
Underscores(s) == { i \in 1..Len(s) : s[i] = "_" }

\* '_'.join(artifact_id.split('_')[2:-1])
RunIdOf(s) ==
    LET us == Underscores(s) IN
    IF Cardinality(us) < 3 THEN << >>
    ELSE LET second == CHOOSE i \in us : Cardinality({ j \in us : j < i }) = 1
             last == CHOOSE i \in us : \A j \in us : j <= i
         IN SubSeq(s, second + 1, last - 1)

\* ------------------------------------------------------------- artifacts

NoneId == << "None" >>

\* what the heuristics read from a text: the filtered words of its first two
\* non-empty lines, its task lines and its decision lines; normalized says
\* whether the text was cleaned and its speaker labels standardized
NoText == [ summary |-> << >>, tasks |-> << >>, decisions |-> << >>,
            normalized |-> FALSE ]

\* the raw texts given to ingest
Texts ==
    { [ summary |-> << "budget", "hiring" >>, tasks |-> << "t1" >>,
        decisions |-> << "d1" >>, normalized |-> FALSE ] }

\* a content dictionary: keys are the keys present
EmptyContent ==
    [ keys |-> {}, text |-> NoText, summary |-> << >>, tasks |-> << >>,
      decisions |-> << >>, recommendations |-> << >>, risk_flags |-> << >>,
      source_summary |-> << >>, validation_score |-> 0,
      hallucination_risk |-> "" ]

\* content.get("summary", "") and the like
GetSummary(content) ==
    IF "summary" \in content.keys THEN content.summary ELSE << >>
GetTasks(content) ==
    IF "tasks" \in content.keys THEN content.tasks ELSE << >>
GetDecisions(content) ==
    IF "decisions" \in content.keys THEN content.decisions ELSE << >>
GetRecommendations(content) ==
    IF "recommendations" \in content.keys THEN content.recommendations
    ELSE << >>
GetRiskFlags(content) ==
    IF "risk_flags" \in content.keys THEN content.risk_flags ELSE << >>

\* mutant: the retrieval ids are recorded in the opposite order
StageMetadataReversed(model, retrieval_ids) ==
    [ model |-> model, tokens |-> 0, cost_usd |-> 0, latency_ms |-> 0,
      retrieval_ids |->
          [ i \in 1..Len(retrieval_ids) |->
              retrieval_ids[Len(retrieval_ids) + 1 - i] ] ]

StageMetadata(model, retrieval_ids) ==
    [ model |-> model, tokens |-> 0, cost_usd |-> 0, latency_ms |-> 0,
      retrieval_ids |-> retrieval_ids ]

\* the Artifact dataclass
Artifact(artifact_id, type, content, derived_from, referenced_context, confidence, stage_metadata, status, version, created_at) ==
    [ artifact_id |-> artifact_id, type |-> type, content |-> content,
      derived_from |-> derived_from,
      referenced_context |-> referenced_context, confidence |-> confidence,
      stage_metadata |-> stage_metadata, status |-> status,
      version |-> version, created_at |-> created_at ]

NoArtifact ==
    Artifact(NoneId, "none", EmptyContent, << >>, << >>, 0,
             StageMetadata("none", << >>), "none", 0, 0)

\* the TelemetryEvent dataclass; log is the date of the file it is appended to
TelemetryEvent(run_id, stage, input_artifact_id, output_artifact_id, now, date) ==
    [ run_id |-> run_id, stage |-> stage,
      input_artifact_id |-> input_artifact_id,
      output_artifact_id |-> output_artifact_id, latency_ms |-> 0,
      cost_usd |-> 0, timestamp |-> now, replayable |-> TRUE,
      replay_of |-> NoneId, log |-> date ]

\* the keyword arguments version, derived_from_override, artifact_id_override
NoOverride ==
    [ version |-> 1, derived_from_override |-> << NoneId >>,
      artifact_id_override |-> << >> ]

\* mutant: replay passes the new id as derived_from_override
ReplayOverrideSelf(version, derived_from, artifact_id) ==
    [ version |-> version, derived_from_override |-> << artifact_id >>,
      artifact_id_override |-> artifact_id ]

\* mutant: replay does not pass the new version to the stage
ReplayOverrideKeepVersion(version, derived_from, artifact_id) ==
    [ version |-> version - 1, derived_from_override |-> derived_from,
      artifact_id_override |-> artifact_id ]

\* mutant: replay records the replayed artifact twice as the parent
ReplayOverrideTwice(version, derived_from, artifact_id) ==
    [ version |-> version, derived_from_override |-> derived_from \o derived_from,
      artifact_id_override |-> artifact_id ]

ReplayOverride(version, derived_from, artifact_id) ==
    [ version |-> version, derived_from_override |-> derived_from,
      artifact_id_override |-> artifact_id ]

\* artifact_id_override if it is truthy, else the generated id
StageId(prefix, date, run_id, ov) ==
    IF ov.artifact_id_override # << >> THEN ov.artifact_id_override
    ELSE MkId(prefix, date, run_id, ov.version)

\* mutant: the stage ignores derived_from_override
StageDerivedFromNatural(ov, natural) == natural

\* derived_from_override if it is not None, else the stage's own parent list
StageDerivedFrom(ov, natural) ==
    IF ov.derived_from_override # << NoneId >> THEN ov.derived_from_override
    ELSE natural

\* ---------------------------------------------------------------- stages

Min(a, b) == IF a <= b THEN a ELSE b
Max(a, b) == IF a >= b THEN a ELSE b

StageNames == { "normalize", "extract", "contextualize", "insight", "validate" }

\* normalize: the transcript artifact of a raw text
normalize(raw_text, run_id, ov, date, now) ==
    Artifact(StageId("transcript", date, run_id, ov),
             "transcript",
             [ EmptyContent EXCEPT !.keys = { "text" },
                                   !.text = [ raw_text EXCEPT !.normalized = TRUE ] ],
             StageDerivedFrom(ov, << >>),
             << >>,
             95,
             StageMetadata("deterministic", << >>),
             "draft", ov.version, now)

\* mutant: extract passes on the confidence of its input
extract_inherit(transcript_artifact, run_id, ov, date, now) ==
    LET transcript_text == transcript_artifact.content.text IN
    Artifact(StageId("extraction", date, run_id, ov),
             "extraction",
             [ EmptyContent EXCEPT !.keys = { "summary", "tasks", "decisions" },
                                   !.summary = transcript_text.summary,
                                   !.tasks = transcript_text.tasks,
                                   !.decisions = transcript_text.decisions ],
             StageDerivedFrom(ov, << transcript_artifact.artifact_id >>),
             << >>,
             transcript_artifact.confidence,
             StageMetadata("rule-based", << >>),
             "draft", ov.version, now)

\* extract: reads content["text"] of its input
extract(transcript_artifact, run_id, ov, date, now) ==
    LET transcript_text == transcript_artifact.content.text IN
    Artifact(StageId("extraction", date, run_id, ov),
             "extraction",
             [ EmptyContent EXCEPT !.keys = { "summary", "tasks", "decisions" },
                                   !.summary = transcript_text.summary,
                                   !.tasks = transcript_text.tasks,
                                   !.decisions = transcript_text.decisions ],
             StageDerivedFrom(ov, << transcript_artifact.artifact_id >>),
             << >>,
             85,
             StageMetadata("rule-based", << >>),
             "draft", ov.version, now)

\* _retrieve_contexts: the ids of the documents, in enumeration order, whose
\* content contains a word of the summary
retrieve_contexts(summary, context_files) ==
    LET Hit(context) ==
            \E i \in 1..Len(summary) : summary[i] \in context.content
        hits == SelectSeq(context_files, Hit)
    IN [ i \in 1..Len(hits) |-> hits[i].context_id ]

\* mutant: 0.2 for each retrieved context, and no cap
context_compute_confidence_uncapped(base_confidence, num_contexts) ==
    base_confidence + num_contexts * 20

\* mutant: 0.02 is added once when any context was retrieved
context_compute_confidence_once(base_confidence, num_contexts) ==
    Min(base_confidence + (IF num_contexts > 0 THEN 2 ELSE 0), 95)

\* _compute_confidence of stages/context.py
context_compute_confidence(base_confidence, num_contexts) ==
    Min(base_confidence + num_contexts * 2, 95)

\* mutant: contextualize drops the decisions from the content it passes on
contextualize_drop_decisions(extraction_artifact, run_id, ov, date, now, context_files) ==
    LET summary == GetSummary(extraction_artifact.content)
        retrieved == retrieve_contexts(summary, context_files)
    IN Artifact(StageId("contextualized", date, run_id, ov),
                "contextualized_extraction",
                [ extraction_artifact.content EXCEPT
                    !.keys = @ \ { "decisions" }, !.decisions = << >> ],
                StageDerivedFrom(ov, << extraction_artifact.artifact_id >>),
                retrieved,
                context_compute_confidence(extraction_artifact.confidence,
                                           Len(retrieved)),
                StageMetadata("deterministic_context_injection", retrieved),
                "draft", ov.version, now)

contextualize(extraction_artifact, run_id, ov, date, now, context_files) ==
    LET summary == GetSummary(extraction_artifact.content)
        retrieved == retrieve_contexts(summary, context_files)
    IN Artifact(StageId("contextualized", date, run_id, ov),
                "contextualized_extraction",
                extraction_artifact.content,
                StageDerivedFrom(ov, << extraction_artifact.artifact_id >>),
                retrieved,
                context_compute_confidence(extraction_artifact.confidence,
                                           Len(retrieved)),
                StageMetadata("deterministic_context_injection", retrieved),
                "draft", ov.version, now)

generate_recommendations(content) ==
    (IF GetTasks(content) # << >>
       THEN << "Review task ownership and deadlines." >> ELSE << >>)
    \o (IF GetDecisions(content) # << >>
          THEN << "Validate decision impact on project timeline." >>
          ELSE << >>)
    \o (IF GetTasks(content) = << >>
          THEN << "No action items detected." >> ELSE << >>)

\* mutant: the flag is raised below 0.90
generate_risk_flags_below_90(confidence) ==
    IF confidence < 90 THEN << "low_confidence" >> ELSE << >>

\* mutant: a confidence of exactly 0.88 is flagged too
generate_risk_flags_inclusive(confidence) ==
    IF confidence <= 88 THEN << "low_confidence" >> ELSE << >>

generate_risk_flags(confidence) ==
    IF confidence < 88 THEN << "low_confidence" >> ELSE << >>

\* mutant: the floor of the insight confidence is 0.60
insight_compute_confidence_floor60(base_confidence) == Max(base_confidence - 3, 60)

\* _compute_confidence of stages/insight.py
insight_compute_confidence(base_confidence) == Max(base_confidence - 3, 70)

\* mutant: generate_insight starts from an empty referenced_context
generate_insight_no_context(contextualized_artifact, run_id, ov, date, now) ==
    LET content == contextualized_artifact.content
        referenced_context == << >>
    IN Artifact(StageId("insight", date, run_id, ov),
                "insight",
                [ EmptyContent EXCEPT
                    !.keys = { "recommendations", "risk_flags", "source_summary" },
                    !.recommendations = generate_recommendations(content),
                    !.risk_flags =
                        generate_risk_flags(contextualized_artifact.confidence),
                    !.source_summary = GetSummary(content) ],
                StageDerivedFrom(ov, << contextualized_artifact.artifact_id >>),
                referenced_context,
                insight_compute_confidence(contextualized_artifact.confidence),
                StageMetadata("deterministic_interpretation", referenced_context),
                "draft", ov.version, now)

generate_insight(contextualized_artifact, run_id, ov, date, now) ==
    LET content == contextualized_artifact.content
        referenced_context == contextualized_artifact.referenced_context
    IN Artifact(StageId("insight", date, run_id, ov),
                "insight",
                [ EmptyContent EXCEPT
                    !.keys = { "recommendations", "risk_flags", "source_summary" },
                    !.recommendations = generate_recommendations(content),
                    !.risk_flags =
                        generate_risk_flags(contextualized_artifact.confidence),
                    !.source_summary = GetSummary(content) ],
                StageDerivedFrom(ov, << contextualized_artifact.artifact_id >>),
                referenced_context,
                insight_compute_confidence(contextualized_artifact.confidence),
                StageMetadata("deterministic_interpretation", referenced_context),
                "draft", ov.version, now)

\* mutant: the score is not reduced for an empty referenced_context
compute_validation_score_flag_only(confidence, risk_flags, referenced_context) ==
    Max(confidence
          - (IF \E i \in 1..Len(risk_flags) : risk_flags[i] = "low_confidence"
               THEN 5 ELSE 0),
        60)

compute_validation_score(confidence, risk_flags, referenced_context) ==
    Max(confidence
          - (IF \E i \in 1..Len(risk_flags) : risk_flags[i] = "low_confidence"
               THEN 5 ELSE 0)
          - (IF referenced_context = << >> THEN 5 ELSE 0),
        60)

\* mutant: the risk depends on the referenced context alone
assess_hallucination_risk_context_only(referenced_context, confidence) ==
    IF referenced_context = << >> THEN "medium" ELSE "low"

assess_hallucination_risk(referenced_context, confidence) ==
    IF referenced_context = << >> THEN "medium"
    ELSE IF confidence < 80 THEN "medium"
    ELSE "low"

\* mutant: a score of exactly 0.85 is not enough
determine_status_strict(validation_score) ==
    IF validation_score > 85 THEN "validated" ELSE "review_required"

determine_status(validation_score) ==
    IF validation_score >= 85 THEN "validated" ELSE "review_required"

validate(insight_artifact, run_id, ov, date, now) ==
    LET content == insight_artifact.content
        confidence == insight_artifact.confidence
        referenced_context == insight_artifact.referenced_context
        validation_score ==
            compute_validation_score(confidence, GetRiskFlags(content),
                                     referenced_context)
    IN Artifact(StageId("validated", date, run_id, ov),
                "validated_insight",
                [ EmptyContent EXCEPT
                    !.keys = { "recommendations", "risk_flags",
                               "validation_score", "hallucination_risk" },
                    !.recommendations = GetRecommendations(content),
                    !.risk_flags = GetRiskFlags(content),
                    !.validation_score = validation_score,
                    !.hallucination_risk =
                        assess_hallucination_risk(referenced_context, confidence) ],
                StageDerivedFrom(ov, << insight_artifact.artifact_id >>),
                referenced_context,
                validation_score,
                StageMetadata("deterministic_validation", referenced_context),
                determine_status(validation_score),
                ov.version, now)

\* the stage whose outputs the family of an id holds
FamilyStage(id) ==
    CASE id[1] = "transcript" -> "normalize"
      [] id[1] = "extraction" -> "extract"
      [] id[1] = "contextualized" -> "contextualize"
      [] id[1] = "insight" -> "insight"
      [] id[1] = "validated" -> "validate"
      [] OTHER -> "none"

\* the stage name written to the telemetry event of each stage
TelemetryStage(stage) ==
    CASE stage = "normalize" -> "normalize"
      [] stage = "extract" -> "extract"
      [] stage = "contextualize" -> "context_injection"
      [] stage = "insight" -> "insight"
      [] stage = "validate" -> "validation"

\* whether the stage raises KeyError before it builds its artifact: extract
\* reads content["text"]
StageKeyError(stage, input) ==
    stage = "extract" /\ "text" \notin input.content.keys

\* the artifact a stage other than normalize builds from its input
StageArtifact(stage, input, run_id, ov, date, now, context_files) ==
    CASE stage = "extract" -> extract(input, run_id, ov, date, now)
      [] stage = "contextualize" ->
            contextualize(input, run_id, ov, date, now, context_files)
      [] stage = "insight" -> generate_insight(input, run_id, ov, date, now)
      [] stage = "validate" -> validate(input, run_id, ov, date, now)

\* ----------------------------------------------------------------- store

Fields ==
    << "artifact_id", "type", "content", "derived_from", "referenced_context",
       "confidence", "stage_metadata", "status", "version", "created_at" >>

\* Artifact.to_dict: the key/value pairs of the fields, in field order
to_dict(artifact) ==
    [ i \in 1..Len(Fields) |-> [ key |-> Fields[i], value |-> artifact[Fields[i]] ] ]

\* Artifact.from_dict: cls(**data)
from_dict(data) ==
    LET Value(k) == data[CHOOSE i \in 1..Len(data) : data[i].key = k].value IN
    Artifact(Value("artifact_id"), Value("type"), Value("content"),
             Value("derived_from"), Value("referenced_context"),
             Value("confidence"), Value("stage_metadata"), Value("status"),
             Value("version"), Value("created_at"))

\* mutant: floats are written with one decimal place
FloatReprOneDecimal(c) ==
    Digits(c \div 100) \o << ".", DigitChars[((c % 100) \div 10) + 1] >>

\* float.__repr__, by which json.dump writes a float: the shortest decimal
\* string that reads back as the same number (c is counted in hundredths)
FloatRepr(c) ==
    Digits(c \div 100) \o << "." >> \o
        (IF c % 10 = 0 THEN << DigitChars[((c % 100) \div 10) + 1] >>
         ELSE << DigitChars[((c % 100) \div 10) + 1], DigitChars[(c % 10) + 1] >>)

\* float(s), by which json.load reads a number that has a fraction part
FloatParse(s) ==
    LET dot == CHOOSE i \in 1..Len(s) : s[i] = "."
        frac == SubSeq(s, dot + 1, Len(s))
    IN 100 * DigitsValue(SubSeq(s, 1, dot - 1))
         + (IF Len(frac) = 1 THEN 10 * DigitsValue(frac) ELSE DigitsValue(frac))

\* json.dump(artifact_dict, f): the members in order; the numbers (the third
\* member, content, holds the validation score, the sixth is confidence, the
\* ninth version) are written as decimal strings, the strings, arrays and
\* objects member by member
json_dump(data) ==
    [ data EXCEPT ![3].value.validation_score = FloatRepr(@),
                  ![6].value = FloatRepr(@),
                  ![9].value = Digits(@) ]

\* json.load(f)
json_load(text) ==
    [ text EXCEPT ![3].value.validation_score = FloatParse(@),
                  ![6].value = FloatParse(@),
                  ![9].value = DigitsValue(@) ]

Put(fs, k, v) == [ x \in DOMAIN fs \cup { k } |-> IF x = k THEN v ELSE fs[x] ]

\* mutant: save_artifact without the existence check
save_artifact_no_check(fs, artifact) ==
    [ error |-> "",
      files |-> Put(fs, artifact.artifact_id,
                    [ body |-> "complete",
                      data |-> json_dump(to_dict(artifact)) ]) ]

\* mutant: save_artifact opens the file for writing before it checks
save_artifact_open_first(fs, artifact) ==
    IF artifact.artifact_id \in DOMAIN fs
    THEN [ error |-> "FileExistsError",
           files |-> Put(fs, artifact.artifact_id,
                         [ body |-> "empty", data |-> << >> ]) ]
    ELSE [ error |-> "",
           files |-> Put(fs, artifact.artifact_id,
                         [ body |-> "complete",
                      data |-> json_dump(to_dict(artifact)) ]) ]

\* ArtifactStore.save_artifact in one step: the error raised ("" for none)
\* and the directory afterwards
save_artifact(fs, artifact) ==
    IF artifact.artifact_id \in DOMAIN fs
    THEN [ error |-> "FileExistsError", files |-> fs ]
    ELSE [ error |-> "",
           files |-> Put(fs, artifact.artifact_id,
                         [ body |-> "complete",
                      data |-> json_dump(to_dict(artifact)) ]) ]

\* mutant: load_artifact returns an empty artifact for an id that has no file
load_artifact_default(fs, artifact_id) ==
    IF artifact_id \notin DOMAIN fs \/ fs[artifact_id].body # "complete"
    THEN [ error |-> "", artifact |-> NoArtifact ]
    ELSE [ error |-> "",
           artifact |-> from_dict(json_load(fs[artifact_id].data)) ]

\* ArtifactStore.load_artifact: json.load fails on a file that is not complete
load_artifact(fs, artifact_id) ==
    IF artifact_id \notin DOMAIN fs
    THEN [ error |-> "FileNotFoundError", artifact |-> NoArtifact ]
    ELSE IF fs[artifact_id].body # "complete"
    THEN [ error |-> "JSONDecodeError", artifact |-> NoArtifact ]
    ELSE [ error |-> "",
           artifact |-> from_dict(json_load(fs[artifact_id].data)) ]

\* sorted(ids): insertion of each id before the first greater one
RECURSIVE SortIds(_)
SortIds(ids) ==
    IF ids = {} THEN << >>
    ELSE LET least == CHOOSE x \in ids : \A y \in ids : y = x \/ StrLess(x, y)
         IN << least >> \o SortIds(ids \ { least })

\* ArtifactStore.list_versions
list_versions(fs, base_name) ==
    SortIds({ id \in DOMAIN fs : IsPrefix(base_name, id) })

\* ----------------------------------------------------------------- state

\* the documents of the context store: content is the set of words that
\* occur in the document as substrings
DocBudget == [ context_id |-> "ctx_budget", content |-> { "budget" } ]
DocFinance == [ context_id |-> "ctx_finance", content |-> { "hiring" } ]
DocMisc == [ context_id |-> "ctx_misc", content |-> {} ]

\* the enumerations of the context directory that occur
ContextConfigs ==
    { << DocMisc, DocBudget >>, << DocFinance, DocBudget >> }

Writers == { 1, 2 }

VARIABLES
    files,      \* the artifacts directory: id -> [body, data]
    telemetry,  \* the telemetry log, in append order
    saved,      \* the ids in the order in which their files were completed
    contexts,   \* the context directory, in its enumeration order
    pipe,       \* the position of the running run_pipeline call
    res,        \* the last operation, its arguments and its outcome
    writers     \* the position of each process inside save_artifact

vars == << files, telemetry, saved, contexts, pipe, res, writers >>

IdlePipe ==
    [ pc |-> "idle", run_id |-> << >>, raw_text |-> NoText, arts |-> << >> ]

IdleWriter == [ pc |-> "idle", artifact |-> NoArtifact ]

Result(op, stage, arg, outcome, error, original, input, out, arts, ids) ==
    [ op |-> op, stage |-> stage, arg |-> arg, outcome |-> outcome,
      error |-> error, original |-> original, input |-> input, out |-> out,
      arts |-> arts, ids |-> ids ]

NoResult ==
    Result("none", "none", NoneId, "return", "", NoArtifact, NoArtifact,
           NoArtifact, << >>, << >>)

Init ==
    /\ files = << >>
    /\ telemetry = << >>
    /\ saved = << >>
    /\ contexts \in ContextConfigs
    /\ pipe = IdlePipe
    /\ res = NoResult
    /\ writers = [ w \in Writers |-> IdleWriter ]

\* the logical time of the next artifact construction
Now == Len(saved) + 1

\* An operation that left the directory and the context store as they were
\* is followed by no further step: every step possible after it is possible
\* from the state before it, which the model explores.  An ingest that failed
\* after its first stage has left artifacts, and is followed by further steps.
Ready ==
    \/ res.op \in { "none", "contexts" }
    \/ res.out # NoArtifact
    \/ res.op = "ingest" /\ res.outcome = "raise" /\ res.arts # << >>

\* mutant: the stage logs its telemetry event before it saves the artifact
run_stage_log_first(fs, tel, stage, input, raw_text, run_id, ov, date, now, context_files) ==
    IF stage # "normalize" /\ StageKeyError(stage, input)
    THEN [ error |-> "KeyError", artifact |-> NoArtifact, files |-> fs,
           telemetry |-> tel ]
    ELSE LET artifact ==
                 IF stage = "normalize"
                 THEN normalize(raw_text, run_id, ov, date, now)
                 ELSE StageArtifact(stage, input, run_id, ov, date, now,
                                    context_files)
             sv == save_artifact(fs, artifact)
             event ==
                 TelemetryEvent(run_id, TelemetryStage(stage),
                                IF stage = "normalize" THEN << "raw_input" >>
                                ELSE input.artifact_id,
                                artifact.artifact_id, now, date)
         IN IF sv.error # ""
            THEN [ error |-> sv.error, artifact |-> NoArtifact, files |-> fs,
                   telemetry |-> Append(tel, event) ]
            ELSE [ error |-> "", artifact |-> artifact, files |-> sv.files,
                   telemetry |-> Append(tel, event) ]

\* One stage call: build the artifact, save it, append the telemetry event.
\* error is the exception that leaves the stage ("" for none).
run_stage(fs, tel, stage, input, raw_text, run_id, ov, date, now, context_files) ==
    IF stage # "normalize" /\ StageKeyError(stage, input)
    THEN [ error |-> "KeyError", artifact |-> NoArtifact, files |-> fs,
           telemetry |-> tel ]
    ELSE LET artifact ==
                 IF stage = "normalize"
                 THEN normalize(raw_text, run_id, ov, date, now)
                 ELSE StageArtifact(stage, input, run_id, ov, date, now,
                                    context_files)
             sv == save_artifact(fs, artifact)
             event ==
                 TelemetryEvent(run_id, TelemetryStage(stage),
                                IF stage = "normalize" THEN << "raw_input" >>
                                ELSE input.artifact_id,
                                artifact.artifact_id, now, date)
         IN IF sv.error # ""
            THEN [ error |-> sv.error, artifact |-> NoArtifact, files |-> fs,
                   telemetry |-> tel ]
            ELSE [ error |-> "", artifact |-> artifact, files |-> sv.files,
                   telemetry |-> Append(tel, event) ]

\* the ids whose files a step completed, appended to the history
SavedAfter(fs2) ==
    IF DOMAIN fs2 = DOMAIN files THEN saved
    ELSE saved \o << CHOOSE id \in DOMAIN fs2 : id \notin DOMAIN files >>

\* ------------------------------------------------------- pipeline runner

PipelineOrder == << "normalize", "extract", "contextualize", "insight", "validate" >>

\* mutant: every later stage is given the transcript artifact
PipelineInputFirst(k) == IF k = 1 THEN NoArtifact ELSE pipe.arts[1]

\* the argument run_pipeline passes to stage k: the artifact that stage k - 1
\* returned (normalize is given the raw text)
PipelineInput(k) == IF k = 1 THEN NoArtifact ELSE pipe.arts[k - 1]

\* mutant: run_pipeline catches the exception of a stage and calls the stage
\* again
PipelineNextPcRetry(k, error) ==
    IF error # "" THEN PipelineOrder[k]
    ELSE IF k = 5 THEN "idle" ELSE PipelineOrder[k + 1]

\* where run_pipeline goes after stage k: an exception leaves the function,
\* as does the return after the fifth stage; otherwise the next call follows
PipelineNextPc(k, error) ==
    IF error # "" \/ k = 5 THEN "idle" ELSE PipelineOrder[k + 1]

\* One stage of run_pipeline: stage k runs on the output of stage k - 1; an
\* exception ends the run, the fifth stage returns the five artifacts.
PipelineStep(k, raw_text, run_id, date) ==
    LET stage == PipelineOrder[k]
        input == PipelineInput(k)
        r == run_stage(files, telemetry, stage, input, raw_text, run_id,
                       NoOverride, date, Now, contexts)
        arts == IF r.error = "" THEN Append(pipe.arts, r.artifact) ELSE pipe.arts
    IN /\ files' = r.files
       /\ telemetry' = r.telemetry
       /\ saved' = SavedAfter(r.files)
       /\ pipe' = IF PipelineNextPc(k, r.error) = "idle" THEN IdlePipe
                  ELSE [ pc |-> PipelineNextPc(k, r.error), run_id |-> run_id,
                         raw_text |-> raw_text, arts |-> arts ]
       /\ res' = Result("ingest", stage, run_id,
                        IF r.error # "" THEN "raise"
                        ELSE IF k = 5 THEN "return" ELSE "running",
                        r.error, NoArtifact, input, r.artifact, arts, << >>)
       /\ UNCHANGED << contexts, writers >>

\* ingest: run_pipeline starts with normalize on the raw text
PipelineNormalize(raw_text, run_id, date) ==
    /\ Ready
    /\ pipe.pc = "idle"
    /\ PipelineStep(1, raw_text, run_id, date)

PipelineExtract(date) ==
    /\ pipe.pc = "extract"
    /\ PipelineStep(2, pipe.raw_text, pipe.run_id, date)

PipelineContextualize(date) ==
    /\ pipe.pc = "contextualize"
    /\ PipelineStep(3, pipe.raw_text, pipe.run_id, date)

PipelineInsight(date) ==
    /\ pipe.pc = "insight"
    /\ PipelineStep(4, pipe.raw_text, pipe.run_id, date)

PipelineValidate(date) ==
    /\ pipe.pc = "validate"
    /\ PipelineStep(5, pipe.raw_text, pipe.run_id, date)

\* ---------------------------------------------------------------- replay

\* mutant: replay gives every stage the replayed artifact itself
NeedsParentNever(stage_name) == FALSE

NeedsParent(stage_name) ==
    stage_name \in { "extract", "contextualize", "insight", "validate" }

\* mutant: replay names the new artifact two versions above the original
ReplayIdSkip(original) ==
    StripVersion(original.artifact_id) \o << "_", "v" >>
        \o Digits(original.version + 2)

\* f"{base_id}_v{new_version}"
ReplayId(original) ==
    StripVersion(original.artifact_id) \o << "_", "v" >>
        \o Digits(original.version + 1)

\* replay(artifact_id, stage_name) of cli.py: the result record and the
\* directory and telemetry log afterwards
replay(fs, tel, artifact_id, stage_name, date, now, context_files) ==
    LET lo == load_artifact(fs, artifact_id)
        original == lo.artifact
        run_id == RunIdOf(artifact_id)
        lp == IF original.derived_from = << >>
              THEN [ error |-> "", artifact |-> NoArtifact ]
              ELSE load_artifact(fs, original.derived_from[1])
        input_artifact == IF NeedsParent(stage_name) THEN lp.artifact ELSE original
        ov == ReplayOverride(original.version + 1, << original.artifact_id >>,
                             ReplayId(original))
        r == run_stage(fs, tel, stage_name, input_artifact,
                       input_artifact.content.text, run_id, ov, date, now,
                       context_files)
        Fail(outcome, error, orig, input) ==
            [ res |-> Result("replay", stage_name, artifact_id, outcome, error,
                             orig, input, NoArtifact, << >>, << >>),
              files |-> fs, telemetry |-> tel ]
    IN IF lo.error # "" THEN Fail("raise", lo.error, NoArtifact, NoArtifact)
       ELSE IF NeedsParent(stage_name) /\ original.derived_from = << >>
       THEN Fail("return", "no parent", original, NoArtifact)
       ELSE IF NeedsParent(stage_name) /\ lp.error # ""
       THEN Fail("raise", lp.error, original, NoArtifact)
       ELSE IF stage_name = "normalize" /\ "text" \notin input_artifact.content.keys
       THEN Fail("raise", "KeyError", original, input_artifact)
       ELSE IF r.error # ""
       THEN Fail("raise", r.error, original, input_artifact)
       ELSE [ res |-> Result("replay", stage_name, artifact_id, "return", "",
                             original, input_artifact, r.artifact, << >>, << >>),
              files |-> r.files, telemetry |-> r.telemetry ]

\* an id that is never stored
AbsentId == MkId("insight", "20260101", << "r" >>, 99)

Replayed(fs) == { id \in DOMAIN fs : VersionOf(id) > 1 }

Replay(artifact_id, stage_name, date) ==
    /\ Ready
    /\ pipe.pc = "idle"
    /\ LET r == replay(files, telemetry, artifact_id, stage_name, date, Now,
                       contexts)
       IN /\ r.files # files => Cardinality(Replayed(files)) < MaxReplays
          /\ files' = r.files
          /\ telemetry' = r.telemetry
          /\ saved' = SavedAfter(r.files)
          /\ res' = r.res
    /\ UNCHANGED << contexts, pipe, writers >>

\* --------------------------------------------------------------- lineage

\* the depth of nested calls at which the interpreter raises RecursionError
\* (1000 frames in CPython, scaled down)
RecursionLimit == 10

\* mutant: _print_lineage_chain prints the parents and does not go further up
print_lineage_chain_flat(fs, parent_ids, level) ==
    IF parent_ids = << >> THEN [ error |-> "", chain |-> << >> ]
    ELSE LET lo == load_artifact(fs, Head(parent_ids))
         IN IF lo.error # "" THEN [ error |-> lo.error, chain |-> << >> ]
            ELSE [ error |-> "", chain |-> << lo.artifact >> ]

\* _print_lineage_chain: the ancestors in the order in which they are
\* printed, and the exception of the first load that fails.  The function
\* calls itself for the parents of each parent, one level deeper, with no
\* record of the ids it has visited; the interpreter raises RecursionError
\* when the calls are nested deeper than its recursion limit.
RECURSIVE print_lineage_chain(_, _, _)
print_lineage_chain(fs, parent_ids, level) ==
    IF level > RecursionLimit
    THEN [ error |-> "RecursionError", chain |-> << >> ]
    ELSE IF parent_ids = << >> THEN [ error |-> "", chain |-> << >> ]
    ELSE LET lo == load_artifact(fs, Head(parent_ids))
             parent == lo.artifact
             up == IF parent.derived_from # << >>
                   THEN print_lineage_chain(fs, parent.derived_from, level + 1)
                   ELSE [ error |-> "", chain |-> << >> ]
             rest == print_lineage_chain(fs, Tail(parent_ids), level)
         IN IF lo.error # "" THEN [ error |-> lo.error, chain |-> << >> ]
            ELSE IF up.error # ""
            THEN [ error |-> up.error, chain |-> << parent >> \o up.chain ]
            ELSE [ error |-> rest.error,
                   chain |-> << parent >> \o up.chain \o rest.chain ]

\* the first exception raised while the version history loads each id
VersionsError(fs, ids) ==
    IF \E i \in 1..Len(ids) : load_artifact(fs, ids[i]).error # ""
    THEN load_artifact(fs, ids[CHOOSE i \in 1..Len(ids) :
                /\ load_artifact(fs, ids[i]).error # ""
                /\ \A j \in 1..(i - 1) : load_artifact(fs, ids[j]).error = ""]).error
    ELSE ""

\* lineage(artifact_id) of cli.py: the artifact, the printed chain and the
\* version history
lineage(fs, artifact_id) ==
    LET lo == load_artifact(fs, artifact_id)
        artifact == lo.artifact
        ch == print_lineage_chain(fs, artifact.derived_from, 1)
        versions == list_versions(fs, StripVersion(artifact_id))
        verr == VersionsError(fs, versions)
    IN IF lo.error # ""
       THEN Result("lineage", "none", artifact_id, "raise", lo.error,
                   NoArtifact, NoArtifact, NoArtifact, << >>, << >>)
       ELSE IF ch.error # ""
       THEN Result("lineage", "none", artifact_id, "raise", ch.error,
                   artifact, NoArtifact, NoArtifact, ch.chain, << >>)
       ELSE IF verr # ""
       THEN Result("lineage", "none", artifact_id, "raise", verr,
                   artifact, NoArtifact, NoArtifact, ch.chain, versions)
       ELSE Result("lineage", "none", artifact_id, "return", "",
                   artifact, NoArtifact, NoArtifact, ch.chain, versions)

Lineage(artifact_id) ==
    /\ Ready
    /\ pipe.pc = "idle"
    /\ res' = lineage(files, artifact_id)
    /\ UNCHANGED << files, telemetry, saved, contexts, pipe, writers >>

\* The context store is maintained independently of the engine; the model
\* lets it change between operations until the first replayed version is
\* stored.
SetContexts(context_files) ==
    /\ Ready
    /\ pipe.pc = "idle"
    /\ Replayed(files) = {}
    /\ contexts # context_files
    /\ contexts' = context_files
    /\ res' = [ NoResult EXCEPT !.op = "contexts" ]
    /\ UNCHANGED << files, telemetry, saved, pipe, writers >>

\* ---------------------------------------------------------- specification

Next ==
    \/ \E raw_text \in Texts, run_id \in RunIds, date \in Dates :
          PipelineNormalize(raw_text, run_id, date)
    \/ \E date \in Dates : PipelineExtract(date)
    \/ \E date \in Dates : PipelineContextualize(date)
    \/ \E date \in Dates : PipelineInsight(date)
    \/ \E date \in Dates : PipelineValidate(date)
    \/ \E artifact_id \in DOMAIN files \cup { AbsentId },
          stage_name \in StageNames, date \in Dates :
          Replay(artifact_id, stage_name, date)
    \/ \E artifact_id \in DOMAIN files \cup { AbsentId } : Lineage(artifact_id)
    \/ \E context_files \in ContextConfigs : SetContexts(context_files)

Spec == Init /\ [][Next]_vars

\* ------------------------------- several runs, on either side of midnight

\* the run identifiers of repeated and retried ingests; the second one ends
\* like a version suffix
RunIds2 == { << "r" >>, << "r", "_", "v", "2" >> }

\* every stage takes the date of its id from datetime.utcnow() on its own
Dates2 == { "20260101", "20260102" }

DateRank(date) == IF date = "20260101" THEN 1 ELSE 2

\* the clock does not go back: no recorded event is of a later date
ClockAt(date) ==
    \A i \in 1..Len(telemetry) : DateRank(telemetry[i].log) <= DateRank(date)

\* number of replays in a behaviour of several runs
MaxRunReplays == 1

NextRuns ==
    \/ \E raw_text \in Texts, run_id \in RunIds2, date \in Dates2 :
          ClockAt(date) /\ PipelineNormalize(raw_text, run_id, date)
    \/ \E date \in Dates2 : ClockAt(date) /\ PipelineExtract(date)
    \/ \E date \in Dates2 : ClockAt(date) /\ PipelineContextualize(date)
    \/ \E date \in Dates2 : ClockAt(date) /\ PipelineInsight(date)
    \/ \E date \in Dates2 : ClockAt(date) /\ PipelineValidate(date)
    \/ /\ Cardinality(Replayed(files)) < MaxRunReplays
       /\ \E artifact_id \in DOMAIN files, date \in Dates2 :
             /\ ClockAt(date)
             /\ \A earlier \in Dates2 :
                  ClockAt(earlier) => DateRank(date) <= DateRank(earlier)
             /\ Replay(artifact_id, FamilyStage(artifact_id), date)

\* the context store does not change in these behaviours; an artifact is
\* replayed with the stage that produced it, on the earliest date the clock
\* allows (the id of the new version depends on neither)
InitRuns == Init /\ contexts = << DocFinance, DocBudget >>

SpecRuns == InitRuns /\ [][NextRuns]_vars

\* ------------------------- lineage on a directory written by other hands

MalformedIds == { MkId("insight", "20260101", << "r" >>, v) : v \in 1..3 }

\* the derived_from lists found in the files
MalformedParents == { << >> } \cup { << id >> : id \in MalformedIds }

\* the directory in which the file of each id names the given parents: the
\* lists may name the artifact itself, or each other in a circle
MalformedStore(parents) ==
    [ id \in MalformedIds |->
        [ body |-> "complete",
          data |-> json_dump(to_dict(
                     Artifact(id, "insight", EmptyContent, parents[id], << >>,
                              82, StageMetadata("deterministic_interpretation",
                                                << >>),
                              "draft", VersionOf(id), 0))) ] ]

InitMalformed ==
    /\ files \in { MalformedStore(parents) :
                      parents \in [ MalformedIds -> MalformedParents ] }
    /\ telemetry = << >>
    /\ saved = << >>
    /\ contexts \in ContextConfigs
    /\ pipe = IdlePipe
    /\ res = NoResult
    /\ writers = [ w \in Writers |-> IdleWriter ]

NextMalformed == \E artifact_id \in DOMAIN files : Lineage(artifact_id)

SpecMalformed == InitMalformed /\ [][NextMalformed]_vars

\* ------------------------------------------------- the store on its own

\* number of files the store-level behaviours create
MaxStored == 3

StoreRuns == { << "r" >>, << "r", "2" >> }
StoreVersions == { 1, 2, 10 }
StoreConfidences == { 85, 95 }

\* the artifacts handed to save_artifact directly
StoreArtifacts ==
    { Artifact(MkId("transcript", "20260101", run, version), "transcript",
               [ EmptyContent EXCEPT !.keys = { "text" } ], << >>, << >>,
               confidence, StageMetadata("deterministic", << >>), "draft",
               version, 0) :
      run \in StoreRuns, version \in StoreVersions,
      confidence \in StoreConfidences }

StoreIds == { a.artifact_id : a \in StoreArtifacts }

\* store.save_artifact(artifact)
StoreSave(artifact) ==
    /\ Ready
    /\ LET r == save_artifact(files, artifact)
       IN /\ r.error = "" => Cardinality(DOMAIN files) < MaxStored
          /\ files' = r.files
          /\ saved' = SavedAfter(r.files)
          /\ res' = Result("save", "none", artifact.artifact_id,
                           IF r.error = "" THEN "return" ELSE "raise", r.error,
                           NoArtifact, artifact,
                           IF r.error = "" THEN artifact ELSE NoArtifact,
                           << >>, << >>)
    /\ UNCHANGED << telemetry, contexts, pipe, writers >>

\* store.load_artifact(artifact_id)
StoreLoad(artifact_id) ==
    /\ Ready
    /\ LET r == load_artifact(files, artifact_id)
       IN res' = Result("load", "none", artifact_id,
                        IF r.error = "" THEN "return" ELSE "raise", r.error,
                        r.artifact, NoArtifact, NoArtifact, << >>, << >>)
    /\ UNCHANGED << files, telemetry, saved, contexts, pipe, writers >>

\* store.list_versions(base_name)
StoreListVersions(base_name) ==
    /\ Ready
    /\ res' = Result("list_versions", "none", base_name, "return", "",
                     NoArtifact, NoArtifact, NoArtifact, << >>,
                     list_versions(files, base_name))
    /\ UNCHANGED << files, telemetry, saved, contexts, pipe, writers >>

NextStore ==
    \/ \E artifact \in StoreArtifacts : StoreSave(artifact)
    \/ \E artifact_id \in StoreIds : StoreLoad(artifact_id)
    \/ \E artifact_id \in StoreIds : StoreListVersions(StripVersion(artifact_id))

SpecStore == Init /\ [][NextStore]_vars

\* ------------------------------------ save_artifact step by step, crashes

WriterArtifacts ==
    { a \in StoreArtifacts :
        a.artifact_id \in { MkId("transcript", "20260101", << "r" >>, 1),
                            MkId("transcript", "20260101", << "r" >>, 2) } }

\* the part of a record that json.dump has flushed when the write is cut short
PartialData(artifact) == SubSeq(json_dump(to_dict(artifact)), 1, 3)

\* artifact_path.exists(): raise FileExistsError, or go on to open the file
WriterCheck(w, artifact) ==
    /\ writers[w].pc = "idle"
    /\ IF artifact.artifact_id \in DOMAIN files
       THEN /\ res' = Result("save", "none", artifact.artifact_id, "raise",
                             "FileExistsError", NoArtifact, artifact,
                             NoArtifact, << >>, << >>)
            /\ UNCHANGED writers
       ELSE /\ writers' = [ writers EXCEPT ![w] =
                              [ pc |-> "checked", artifact |-> artifact ] ]
            /\ UNCHANGED res
    /\ UNCHANGED << files, telemetry, saved, contexts, pipe >>

\* mutant: the file is created exclusively (mode 'x'), so that a writer that
\* lost the race is told so
WriterOpenExclusive(w) ==
    /\ writers[w].pc = "checked"
    /\ IF writers[w].artifact.artifact_id \in DOMAIN files
       THEN /\ writers' = [ writers EXCEPT ![w] = IdleWriter ]
            /\ res' = Result("save", "none", writers[w].artifact.artifact_id,
                             "raise", "FileExistsError", NoArtifact,
                             writers[w].artifact, NoArtifact, << >>, << >>)
            /\ UNCHANGED files
       ELSE /\ files' = Put(files, writers[w].artifact.artifact_id,
                            [ body |-> "empty", data |-> << >> ])
            /\ writers' = [ writers EXCEPT ![w].pc = "opened" ]
            /\ UNCHANGED res
    /\ UNCHANGED << telemetry, saved, contexts, pipe >>

\* open(artifact_path, 'w') creates the file, or truncates it, empty
WriterOpen(w) ==
    /\ writers[w].pc = "checked"
    /\ files' = Put(files, writers[w].artifact.artifact_id,
                    [ body |-> "empty", data |-> << >> ])
    /\ writers' = [ writers EXCEPT ![w].pc = "opened" ]
    /\ UNCHANGED << telemetry, saved, contexts, pipe, res >>

\* json.dump flushes a first part of the record
WriterFlush(w) ==
    /\ writers[w].pc = "opened"
    /\ files' = Put(files, writers[w].artifact.artifact_id,
                    [ body |-> "partial",
                      data |-> PartialData(writers[w].artifact) ])
    /\ writers' = [ writers EXCEPT ![w].pc = "flushed" ]
    /\ UNCHANGED << telemetry, saved, contexts, pipe, res >>

\* the end of the with block writes the rest and closes the file
WriterClose(w) ==
    /\ writers[w].pc \in { "opened", "flushed" }
    /\ files' = Put(files, writers[w].artifact.artifact_id,
                    [ body |-> "complete",
                      data |-> json_dump(to_dict(writers[w].artifact)) ])
    /\ saved' = Append(saved, writers[w].artifact.artifact_id)
    /\ writers' = [ writers EXCEPT ![w] = IdleWriter ]
    /\ res' = Result("save", "none", writers[w].artifact.artifact_id,
                     "return", "", NoArtifact, writers[w].artifact,
                     writers[w].artifact, << >>, << >>)
    /\ UNCHANGED << telemetry, contexts, pipe >>

\* the process dies inside save_artifact; what it had not flushed is lost
WriterCrash(w) ==
    /\ writers[w].pc # "idle"
    /\ writers' = [ writers EXCEPT ![w] = IdleWriter ]
    /\ res' = Result("save", "none", writers[w].artifact.artifact_id,
                     "crash", "", NoArtifact, writers[w].artifact, NoArtifact,
                     << >>, << >>)
    /\ UNCHANGED << files, telemetry, saved, contexts, pipe >>

\* store.load_artifact(artifact_id) by a process that is not saving
WriterLoad(artifact_id) ==
    /\ LET r == load_artifact(files, artifact_id)
       IN res' = Result("load", "none", artifact_id,
                        IF r.error = "" THEN "return" ELSE "raise", r.error,
                        r.artifact, NoArtifact, NoArtifact, << >>, << >>)
    /\ UNCHANGED << files, telemetry, saved, contexts, pipe, writers >>

NextWriters ==
    \/ \E w \in Writers, artifact \in WriterArtifacts : WriterCheck(w, artifact)
    \/ \E w \in Writers : WriterOpen(w)
    \/ \E w \in Writers : WriterFlush(w)
    \/ \E w \in Writers : WriterClose(w)
    \/ \E w \in Writers : WriterCrash(w)
    \/ \E artifact_id \in { a.artifact_id : a \in WriterArtifacts } :
          WriterLoad(artifact_id)

SpecWriters == Init /\ [][NextWriters]_vars

\* ------------------------------------- ids that carry no version suffix

\* ids that do not end in _v<N>, and one that does
UnversionedIds ==
    { << "transcript", "_", "20260101", "_", "r" >>,
      << "transcript", "_", "20260101", "_", "r", "_", "v" >>,
      MkId("transcript", "20260101", << "r" >>, 1) }

\* the artifacts saved under those ids through the store
UnversionedArtifacts ==
    { Artifact(id, "transcript",
               [ EmptyContent EXCEPT !.keys = { "text" },
                                     !.text = [ raw_text EXCEPT !.normalized = TRUE ] ],
               << >>, << >>, 95, StageMetadata("deterministic", << >>),
               "draft", 1, 0) :
      id \in UnversionedIds, raw_text \in Texts }

NextUnversioned ==
    \/ \E artifact \in UnversionedArtifacts : StoreSave(artifact)
    \/ \E artifact_id \in DOMAIN files \cup UnversionedIds,
          stage_name \in StageNames, date \in Dates :
          Replay(artifact_id, stage_name, date)
    \/ \E artifact_id \in DOMAIN files \cup UnversionedIds : Lineage(artifact_id)

SpecUnversioned == Init /\ [][NextUnversioned]_vars

\* ------------------------------------ one stage called on a given artifact

\* number of context documents that contain a word of the summary
MaxContexts == 3

ContextIds ==
    << "ctx_a", "ctx_b", "ctx_c", "ctx_d", "ctx_e", "ctx_f", "ctx_g" >>

\* context directories: a document without a match, then n documents that
\* contain the word budget
StageContexts ==
    { << DocMisc >> \o
        [ i \in 1..n |-> [ context_id |-> ContextIds[i], content |-> { "budget" } ] ] :
      n \in 0..MaxContexts }

\* the confidence values of the given artifacts, in hundredths
Confidences == 0..100

\* the artifacts a stage is called with: of the type the stage declares, with
\* any confidence, with and without referenced context and risk flag
StageInputsOf(stage) ==
    CASE stage = "extract" ->
           { Artifact(MkId("transcript", "20260101", << "r" >>, 1), "transcript",
                      [ EmptyContent EXCEPT
                          !.keys = { "text" },
                          !.text = [ raw_text EXCEPT !.normalized = TRUE ] ],
                      << >>, << >>, confidence,
                      StageMetadata("deterministic", << >>), "draft", 1, 0) :
             raw_text \in Texts, confidence \in Confidences }
      [] stage = "contextualize" ->
           { Artifact(MkId("extraction", "20260101", << "r" >>, 1), "extraction",
                      [ EmptyContent EXCEPT
                          !.keys = { "summary", "tasks", "decisions" },
                          !.summary = << "budget" >>, !.tasks = << "t1" >> ],
                      << MkId("transcript", "20260101", << "r" >>, 1) >>, << >>,
                      confidence, StageMetadata("rule-based", << >>), "draft",
                      1, 0) :
             confidence \in Confidences }
      [] stage = "insight" ->
           { Artifact(MkId("contextualized", "20260101", << "r" >>, 1),
                      "contextualized_extraction",
                      [ EmptyContent EXCEPT
                          !.keys = { "summary", "tasks", "decisions" },
                          !.summary = << "budget" >>, !.tasks = << "t1" >> ],
                      << MkId("extraction", "20260101", << "r" >>, 1) >>,
                      referenced_context, confidence,
                      StageMetadata("deterministic_context_injection",
                                    referenced_context),
                      "draft", 1, 0) :
             confidence \in Confidences,
             referenced_context \in { << >>, << "ctx_a" >> } }
      [] stage = "validate" ->
           { Artifact(MkId("insight", "20260101", << "r" >>, 1), "insight",
                      [ EmptyContent EXCEPT
                          !.keys = { "recommendations", "risk_flags",
                                     "source_summary" },
                          !.recommendations =
                              << "Review task ownership and deadlines." >>,
                          !.risk_flags = risk_flags,
                          !.source_summary = << "budget" >> ],
                      << MkId("contextualized", "20260101", << "r" >>, 1) >>,
                      referenced_context, confidence,
                      StageMetadata("deterministic_interpretation",
                                    referenced_context),
                      "draft", 1, 0) :
             confidence \in Confidences,
             referenced_context \in { << >>, << "ctx_a" >> },
             risk_flags \in { << >>, << "low_confidence" >> } }

\* The inputs of every stage, as one table computed once.
StageInputs == [ stage \in StageNames \ { "normalize" } |-> StageInputsOf(stage) ]

\* normalize(raw_text, run_id) called in an empty artifacts directory
StageCallNormalize(raw_text) ==
    /\ files = << >>
    /\ LET r == run_stage(files, telemetry, "normalize", NoArtifact, raw_text,
                          << "r" >>, NoOverride, "20260101", Now, contexts)
       IN /\ files' = r.files
          /\ telemetry' = r.telemetry
          /\ saved' = SavedAfter(r.files)
          /\ res' = Result("stage", "normalize", NoneId,
                           IF r.error = "" THEN "return" ELSE "raise", r.error,
                           NoArtifact, NoArtifact, r.artifact, << >>, << >>)
    /\ UNCHANGED << contexts, pipe, writers >>

\* stage(input, run_id) called in an empty artifacts directory
StageCall(stage, input) ==
    /\ files = << >>
    /\ LET r == run_stage(files, telemetry, stage, input, NoText, << "r" >>,
                          NoOverride, "20260101", Now, contexts)
       IN /\ files' = r.files
          /\ telemetry' = r.telemetry
          /\ saved' = SavedAfter(r.files)
          /\ res' = Result("stage", stage, input.artifact_id,
                           IF r.error = "" THEN "return" ELSE "raise", r.error,
                           NoArtifact, input, r.artifact, << >>, << >>)
    /\ UNCHANGED << contexts, pipe, writers >>

InitStages ==
    /\ files = << >>
    /\ telemetry = << >>
    /\ saved = << >>
    /\ contexts \in StageContexts
    /\ pipe = IdlePipe
    /\ res = NoResult
    /\ writers = [ w \in Writers |-> IdleWriter ]

NextStages ==
    \/ \E raw_text \in Texts : StageCallNormalize(raw_text)
    \/ \E stage \in StageNames \ { "normalize" } :
          \E input \in StageInputs[stage] : StageCall(stage, input)

SpecStages == InitStages /\ [][NextStages]_vars

\* ----------------------------- runs whose ids begin with the same characters

\* two run identifiers of which one is the beginning of the other
RunIdsPrefix == { << "r" >>, << "r", "2" >> }

\* both runs are ingested on one date; an artifact is replayed with the stage
\* that produced it
NextFamilies ==
    \/ \E raw_text \in Texts, run_id \in RunIdsPrefix :
          PipelineNormalize(raw_text, run_id, "20260101")
    \/ PipelineExtract("20260101")
    \/ PipelineContextualize("20260101")
    \/ PipelineInsight("20260101")
    \/ PipelineValidate("20260101")
    \/ /\ Cardinality(Replayed(files)) < MaxRunReplays
       /\ \E artifact_id \in DOMAIN files :
             Replay(artifact_id, FamilyStage(artifact_id), "20260101")
    \/ \E artifact_id \in DOMAIN files : Lineage(artifact_id)

SpecFamilies == InitRuns /\ [][NextFamilies]_vars

\* ------------------------------ an ingest with any number of context hits

\* number of context documents that contain a word of the summary, in the
\* directory of an ingest: more than the confidence cap of contextualize
\* leaves room for
MaxIngestContexts == 6

\* context directories: a document without a match, then n documents that
\* contain the word budget
IngestContexts ==
    { << DocMisc >> \o
        [ i \in 1..n |-> [ context_id |-> ContextIds[i], content |-> { "budget" } ] ] :
      n \in 0..MaxIngestContexts }

InitIngest ==
    /\ files = << >>
    /\ telemetry = << >>
    /\ saved = << >>
    /\ contexts \in IngestContexts
    /\ pipe = IdlePipe
    /\ res = NoResult
    /\ writers = [ w \in Writers |-> IdleWriter ]

\* one ingest, then replays of its artifacts, each with the stage that
\* produced the artifact; the context directory stays as it is
NextIngest ==
    \/ \E raw_text \in Texts, run_id \in RunIds :
          PipelineNormalize(raw_text, run_id, "20260101")
    \/ PipelineExtract("20260101")
    \/ PipelineContextualize("20260101")
    \/ PipelineInsight("20260101")
    \/ PipelineValidate("20260101")
    \/ \E artifact_id \in DOMAIN files :
          Replay(artifact_id, FamilyStage(artifact_id), "20260101")

SpecIngest == InitIngest /\ [][NextIngest]_vars

\* ---------------------------------------------------------------- claims

\* the artifact stored under an id
Stored(id) == from_dict(json_load(files[id].data))

\* the position of an id in the order of persisting
SavedAt(id) == CHOOSE i \in 1..Len(saved) : saved[i] = id

\* the artifact type a stage declares as its input
DeclaredInput(stage) ==
    CASE stage = "extract" -> "transcript"
      [] stage = "contextualize" -> "extraction"
      [] stage = "insight" -> "contextualized_extraction"
      [] stage = "validate" -> "insight"
      [] OTHER -> "none"

ReplaySucceeded(r) == r.op = "replay" /\ r.outcome = "return" /\ r.error = ""

\* C1: a save of an artifact whose id is already stored raises
\* FileExistsError and leaves every stored record as it was.
C1_SaveExistingRejected ==
    [][ (res'.op = "save" /\ res'.arg \in DOMAIN files)
          => /\ res'.outcome = "raise"
             /\ res'.error = "FileExistsError"
             /\ files' = files ]_vars

\* C1 witness: a save was rejected whose artifact differs from the stored one.
C1_Witness ==
    /\ res.op = "save"
    /\ res.error = "FileExistsError"
    /\ res.arg \in DOMAIN files
    /\ Stored(res.arg) # res.input

\* C2: no operation changes or removes a persisted record, and a successful
\* replay adds exactly the one new artifact, leaving the replayed artifact
\* and the stage input as they were.
C2_AppendOnly ==
    [][ /\ \A id \in DOMAIN files : id \in DOMAIN files' /\ files'[id] = files[id]
        /\ ReplaySucceeded(res')
             => /\ res'.out.artifact_id \notin DOMAIN files
                /\ DOMAIN files' = DOMAIN files \cup { res'.out.artifact_id }
                /\ res'.original.artifact_id \in DOMAIN files
                /\ from_dict(json_load(files'[res'.original.artifact_id].data))
                     = res'.original
                /\ res'.input.artifact_id \in DOMAIN files
                /\ from_dict(json_load(files'[res'.input.artifact_id].data))
                     = res'.input ]_vars

\* C2 witness: a replay succeeded on a stage input other than the replayed
\* artifact.
C2_Witness ==
    /\ ReplaySucceeded(res)
    /\ res.out.artifact_id \in DOMAIN files
    /\ res.input.artifact_id # res.original.artifact_id

\* C3: every id in a persisted artifact's derived_from names an artifact that
\* is stored and was persisted strictly before it.
C3_ParentsPrecede ==
    \A id \in DOMAIN files :
        \A i \in 1..Len(Stored(id).derived_from) :
            LET parent == Stored(id).derived_from[i] IN
            /\ parent \in DOMAIN files
            /\ SavedAt(parent) < SavedAt(id)

\* C3 witness: a replayed version of a replayed version is stored.
C3_Witness ==
    \E id \in DOMAIN files :
        /\ Stored(id).version = 3
        /\ Stored(id).derived_from # << >>
        /\ Stored(Stored(id).derived_from[1]).version = 2

\* C4: the replay of a persisted artifact with the stage of its family, when
\* the next version of the family is not stored yet, succeeds and yields the
\* next version; so does the replay of that result.
C4_VersionMonotonicity ==
    [][ (/\ res'.op = "replay"
         /\ res'.arg \in DOMAIN files
         /\ res'.stage = FamilyStage(res'.arg)
         /\ ReplayId(Stored(res'.arg)) \notin DOMAIN files)
          => /\ ReplaySucceeded(res')
             /\ res'.out.version = Stored(res'.arg).version + 1 ]_vars

\* C5: a successful replay of artifact a returns, and stores, an artifact of
\* version a.version + 1 whose id is the family name of a.id followed by _v
\* and that version, and whose derived_from is exactly [a.id].
C5_ReplayIdentity ==
    ReplaySucceeded(res) =>
        /\ res.original.artifact_id = res.arg
        /\ res.out.version = res.original.version + 1
        /\ res.out.artifact_id =
              StripVersion(res.original.artifact_id) \o << "_", "v" >>
                  \o Digits(res.original.version + 1)
        /\ res.out.derived_from = << res.original.artifact_id >>
        /\ res.out.artifact_id \in DOMAIN files
        /\ Stored(res.out.artifact_id) = res.out

\* C5 witness: a replay succeeded whose stage read another artifact than the
\* replayed one, and whose stage would have generated another id.
C5_Witness ==
    /\ ReplaySucceeded(res)
    /\ res.input.artifact_id # res.original.artifact_id
    /\ res.stage # FamilyStage(res.arg)

\* whether replay gets as far as the save: the artifact has the parent the
\* stage needs, and normalize and extract find the text they read
ReachesSave(r) ==
    /\ ~(NeedsParent(r.stage) /\ r.original.derived_from = << >>)
    /\ ~(r.stage = "normalize" /\ "text" \notin r.original.content.keys)
    /\ ~(r.stage = "extract" /\ "text" \notin r.input.content.keys)

\* C6 as claimed: when the next version's id is already stored, every replay
\* of the artifact raises FileExistsError and changes neither the store nor
\* the telemetry log.
C6_AlreadyExistsAlways ==
    [][ (/\ res'.op = "replay"
         /\ res'.arg \in DOMAIN files
         /\ ReplayId(Stored(res'.arg)) \in DOMAIN files)
          => /\ res'.outcome = "raise"
             /\ res'.error = "FileExistsError"
             /\ files' = files
             /\ telemetry' = telemetry ]_vars

\* C6 amended: when the next version's id is already stored, a replay of the
\* artifact adds no artifact and no telemetry event and returns no artifact;
\* it raises FileExistsError whenever it gets as far as the save.
C6_AlreadyExists ==
    [][ (/\ res'.op = "replay"
         /\ res'.arg \in DOMAIN files
         /\ ReplayId(Stored(res'.arg)) \in DOMAIN files)
          => /\ files' = files
             /\ telemetry' = telemetry
             /\ res'.out = NoArtifact
             /\ ReachesSave(res')
                  => res'.outcome = "raise" /\ res'.error = "FileExistsError" ]_vars

\* C6 witness: the replay of an artifact was rejected because its next
\* version is stored.
C6_Witness ==
    /\ res.op = "replay"
    /\ res.error = "FileExistsError"
    /\ ReplayId(res.original) \in DOMAIN files
    /\ ReachesSave(res)

\* C7: the replay of a stage that needs a parent, on an artifact whose
\* derived_from is empty, ends in a failure raised to the caller.
C7_MissingParentRaised ==
    (/\ res.op = "replay"
     /\ NeedsParent(res.stage)
     /\ res.original # NoArtifact
     /\ res.original.derived_from = << >>)
      => res.outcome = "raise"

\* C8: whenever a stage that reads an artifact runs, in ingest or in the
\* replay of an artifact with the stage of its family, the artifact it reads
\* has the stage's declared input type.
C8_DeclaredInputType ==
    (/\ res.op \in { "ingest", "replay" }
     /\ res.op = "replay" => res.stage = FamilyStage(res.arg)
     /\ NeedsParent(res.stage)
     /\ res.input # NoArtifact)
      => res.input.type = DeclaredInput(res.stage)

\* C9: list_versions returns the ids of a family in ascending numeric
\* version order.
C9_NumericVersionOrder ==
    res.op = "list_versions" =>
        \A i, j \in 1..Len(res.ids) :
            (i < j /\ StripVersion(res.ids[i]) = StripVersion(res.ids[j]))
              => VersionOf(res.ids[i]) < VersionOf(res.ids[j])

\* C10: whenever no process is inside save_artifact for an id, the file of
\* that id is absent or holds a complete record.
C10_NoPartialRecord ==
    \A id \in DOMAIN files :
        files[id].body # "complete"
          => \E w \in Writers :
                writers[w].pc # "idle" /\ writers[w].artifact.artifact_id = id

\* C11: a writer that passed the existence check before another writer
\* stored the same id is not told so: its next step raises nothing and
\* truncates the complete record of the other writer, and when it closes the
\* file its own record is the stored one.
C11_RacePastCheck ==
    [][ \A w \in Writers :
          LET id == writers[w].artifact.artifact_id IN
          /\ (/\ writers[w].pc = "checked"
              /\ writers'[w] # writers[w]
              /\ res'.outcome # "crash"
              /\ id \in DOMAIN files
              /\ files[id].body = "complete")
               => /\ writers'[w].pc = "opened"
                  /\ res' = res
                  /\ files'[id] # files[id]
                  /\ files'[id].body = "empty"
          /\ (/\ writers[w].pc \in { "opened", "flushed" }
              /\ writers'[w] # writers[w]
              /\ writers'[w].pc = "idle"
              /\ res'.outcome # "crash")
               => /\ res'.outcome = "return"
                  /\ res'.error = ""
                  /\ files'[id].data = json_dump(to_dict(writers[w].artifact)) ]_vars

\* C11 witness: two saves of the same id have both returned without an error,
\* and the record of the second is the stored one.
C11_Witness ==
    /\ res.op = "save"
    /\ res.outcome = "return"
    /\ Cardinality({ i \in 1..Len(saved) : saved[i] = res.arg }) = 2
    /\ Stored(res.arg) = res.out

\* C12: after stage k of an ingest has returned, the k artifacts of the run
\* are the outputs of normalize, extract, contextualize, insight, validate in
\* that order, each produced once; each is persisted and its telemetry event
\* appended, in that order, before the next stage starts; stage k read the
\* output of stage k - 1, and every output but the first has the id of the
\* previous output as its only derived_from entry.
C12_StagesInOrder ==
    (res.op = "ingest" /\ res.error = "") =>
        LET k == Len(res.arts)
            n == Len(telemetry)
            m == Len(saved)
        IN /\ k \in 1..5
           /\ res.stage = PipelineOrder[k]
           /\ (res.outcome = "return") <=> (k = 5)
           /\ res.outcome = "running"
                => pipe.pc = PipelineOrder[k + 1] /\ pipe.arts = res.arts
           /\ res.outcome = "return" => pipe.pc = "idle"
           /\ k > 1 => res.input = res.arts[k - 1]
           /\ n >= k
           /\ m >= k
           /\ \A i \in 1..k :
                LET id == res.arts[i].artifact_id
                    event == telemetry[n - k + i]
                IN /\ FamilyStage(id) = PipelineOrder[i]
                   /\ id \in DOMAIN files
                   /\ Stored(id) = res.arts[i]
                   /\ saved[m - k + i] = id
                   /\ event.stage = TelemetryStage(PipelineOrder[i])
                   /\ event.output_artifact_id = id
                   /\ i = 1 => res.arts[i].derived_from = << >>
                   /\ i > 1 =>
                        /\ res.arts[i].derived_from
                             = << res.arts[i - 1].artifact_id >>
                        /\ event.input_artifact_id = res.arts[i - 1].artifact_id

\* C12 witness: an ingest has returned its five artifacts.
C12_Witness ==
    /\ res.op = "ingest"
    /\ res.outcome = "return"
    /\ Len(res.arts) = 5
    /\ res.arts[5].derived_from = << res.arts[4].artifact_id >>

\* C13: when a stage of an ingest raises, run_pipeline is left at once with
\* that exception: no further stage of the run can start, the stage is not
\* called again, and the artifacts that the earlier stages of the run
\* persisted are still stored as they were returned; nothing is added.
C13_FailFast ==
    [][ (res'.op = "ingest" /\ res'.outcome = "raise")
          => /\ res'.error # ""
             /\ pipe' = IdlePipe
             /\ files' = files
             /\ telemetry' = telemetry
             /\ res'.arts = pipe.arts
             /\ \A i \in 1..Len(pipe.arts) :
                  /\ pipe.arts[i].artifact_id \in DOMAIN files'
                  /\ from_dict(json_load(files'[pipe.arts[i].artifact_id].data))
                       = pipe.arts[i] ]_vars

\* C13 witness: an ingest failed in a stage after the first, with the
\* artifacts of its earlier stages stored.
C13_Witness ==
    /\ res.op = "ingest"
    /\ res.outcome = "raise"
    /\ res.stage \in { "extract", "contextualize", "insight", "validate" }
    /\ Len(res.arts) >= 1
    /\ \A i \in 1..Len(res.arts) : res.arts[i].artifact_id \in DOMAIN files

\* the position of a stage in run_pipeline
StageIndex(stage) == CHOOSE k \in 1..5 : PipelineOrder[k] = stage

\* the telemetry events recorded before the running ingest started
EventsBefore(stage) == 1..(Len(telemetry) - (StageIndex(stage) - 1))

\* C14: a stage of an ingest whose run id is the run id of no earlier ingest
\* (of no event recorded before the ingest started) does not fail: the id it
\* generates is not stored, whatever ingests, complete or aborted, and
\* replays came before.
C14_NewRunNoCollision ==
    [][ (/\ res'.op = "ingest"
         /\ \A i \in EventsBefore(res'.stage) : telemetry[i].run_id # res'.arg)
          => /\ res'.error = ""
             /\ res'.out.artifact_id \notin DOMAIN files
             /\ res'.out.artifact_id \in DOMAIN files'
             /\ RunIdOf(res'.out.artifact_id) = res'.arg ]_vars

\* C14 witness: an ingest under a new run id has completed in a store that
\* holds, from another run, a replayed version and the transcript of an
\* ingest that was aborted in its second stage.
C14_Witness ==
    /\ res.op = "ingest"
    /\ res.outcome = "return"
    /\ \E id \in DOMAIN files : RunIdOf(id) # res.arg /\ VersionOf(id) >= 2
    /\ Cardinality({ id \in DOMAIN files :
                       /\ RunIdOf(id) # res.arg
                       /\ VersionOf(id) = 1
                       /\ id[1] = "transcript" })
         > Cardinality({ id \in DOMAIN files :
                           /\ RunIdOf(id) # res.arg
                           /\ VersionOf(id) = 1
                           /\ id[1] = "extraction" })
    /\ \A i \in 1..(Len(telemetry) - 5) : telemetry[i].run_id # res.arg

\* C15: the confidence of every persisted artifact, whether an ingest or a
\* replay of any stage on any persisted artifact stored it, lies between 0
\* and 1 (0 and 100 hundredths).
C15_ConfidenceInRange ==
    \A id \in DOMAIN files :
        /\ Stored(id).confidence >= 0
        /\ Stored(id).confidence <= 100

\* C15 witness: a replay of a replayed version has stored an artifact built
\* by another stage than that of its family, from a confidence that a
\* replay computed.
C15_Witness ==
    /\ ReplaySucceeded(res)
    /\ res.out.version = 3
    /\ res.stage # FamilyStage(res.arg)
    /\ res.out.artifact_id \in DOMAIN files
    /\ res.out.confidence # res.input.confidence

\* C16: once a stage has saved the artifact it built under an id that was not
\* stored, load_artifact of that id returns an artifact equal to it in each
\* of the ten fields.
C16_RoundTrip ==
    (res.op \in { "ingest", "replay" } /\ res.out # NoArtifact) =>
        LET lo == load_artifact(files, res.out.artifact_id) IN
        /\ lo.error = ""
        /\ \A i \in 1..Len(Fields) : lo.artifact[Fields[i]] = res.out[Fields[i]]

\* C16 witness: a validated artifact with a validation score, context
\* references and a parent has been saved, and its file holds the encoded
\* record.
C16_Witness ==
    /\ res.op \in { "ingest", "replay" }
    /\ res.out.type = "validated_insight"
    /\ res.out.content.validation_score > 0
    /\ res.out.referenced_context # << >>
    /\ res.out.derived_from # << >>
    /\ res.out.artifact_id \in DOMAIN files
    /\ files[res.out.artifact_id].data[6].key = "confidence"
    /\ files[res.out.artifact_id].data[6].value = FloatRepr(res.out.confidence)
    /\ load_artifact(files, res.out.artifact_id).artifact = res.out

\* C17: load_artifact of an id that has no file raises FileNotFoundError, and
\* a replay or a lineage of such an id ends with that exception, with the
\* store and the telemetry log as they were.
C17_NotFound ==
    [][ (res'.op \in { "replay", "lineage" } /\ res'.arg \notin DOMAIN files)
          => /\ load_artifact(files, res'.arg).error = "FileNotFoundError"
             /\ res'.outcome = "raise"
             /\ res'.error = "FileNotFoundError"
             /\ res'.out = NoArtifact
             /\ files' = files
             /\ telemetry' = telemetry ]_vars

\* C17 witness: a replay of an absent id has failed on a store that holds
\* artifacts and a telemetry log that holds events.
C17_Witness ==
    /\ res.op = "replay"
    /\ res.arg \notin DOMAIN files
    /\ res.error = "FileNotFoundError"
    /\ files # << >>
    /\ telemetry # << >>

\* C18: a lineage that returns has listed the ancestors of the artifact along
\* its derived_from pointers, parent first: the first entry is the stored
\* parent of the artifact, every further entry the stored parent of the
\* entry before it, the last entry has no parent, and no artifact is listed
\* twice.
C18_LineageChain ==
    (res.op = "lineage" /\ res.outcome = "return") =>
        LET chain == res.arts
            artifact == res.original
        IN /\ artifact = Stored(res.arg)
           /\ (artifact.derived_from = << >>) <=> (chain = << >>)
           /\ \A i \in 1..Len(chain) :
                LET child == IF i = 1 THEN artifact ELSE chain[i - 1] IN
                /\ child.derived_from = << chain[i].artifact_id >>
                /\ chain[i].artifact_id \in DOMAIN files
                /\ chain[i] = Stored(chain[i].artifact_id)
                /\ chain[i].artifact_id # artifact.artifact_id
           /\ chain # << >> => chain[Len(chain)].derived_from = << >>
           /\ \A i, j \in 1..Len(chain) :
                i < j => chain[i].artifact_id # chain[j].artifact_id

\* C18 witness: the lineage of a twice replayed artifact has returned a chain
\* that passes through a replay-created version and ends at a transcript.
C18_Witness ==
    /\ res.op = "lineage"
    /\ res.outcome = "return"
    /\ res.original.version = 3
    /\ Len(res.arts) >= 3
    /\ res.arts[1].version = 2
    /\ res.arts[Len(res.arts)].type = "transcript"

\* C19: on every content of the directory, also one whose derived_from lists
\* lead back to an artifact already visited, a lineage stops by itself: it
\* lists no artifact twice and does not end in the interpreter's
\* RecursionError.
C19_LineageGuarded ==
    res.op = "lineage" =>
        /\ res.error # "RecursionError"
        /\ \A i, j \in 1..Len(res.arts) :
             i < j => res.arts[i].artifact_id # res.arts[j].artifact_id

\* C20: a step in which a stage persists its artifact appends exactly one
\* telemetry event, whose output_artifact_id is the id of that artifact; a
\* step that persists nothing, as when the save fails, appends none; no
\* event is ever changed or removed.  So every event names a stored
\* artifact, and a completed ingest has appended five events, one for each
\* stage, in stage order.
C20_OneEventPerSave ==
    [][ /\ Len(telemetry') >= Len(telemetry)
        /\ SubSeq(telemetry', 1, Len(telemetry)) = telemetry
        /\ DOMAIN files' = DOMAIN files => telemetry' = telemetry
        /\ res'.error # "" => telemetry' = telemetry
        /\ DOMAIN files' # DOMAIN files
             => /\ Len(telemetry') = Len(telemetry) + 1
                /\ DOMAIN files' = DOMAIN files \cup { res'.out.artifact_id }
                /\ telemetry'[Len(telemetry')].output_artifact_id
                     = res'.out.artifact_id
                /\ telemetry'[Len(telemetry')].stage = TelemetryStage(res'.stage)
        /\ \A i \in 1..Len(telemetry') :
             telemetry'[i].output_artifact_id \in DOMAIN files'
        /\ (res'.op = "ingest" /\ res'.outcome = "return")
             => /\ Len(telemetry') >= 5
                /\ \A k \in 1..5 :
                     LET event == telemetry'[Len(telemetry') - 5 + k] IN
                     /\ event.stage = TelemetryStage(PipelineOrder[k])
                     /\ event.output_artifact_id = res'.arts[k].artifact_id
                     /\ event.run_id = res'.arg ]_vars

\* C20 witness: after an ingest and one replay that stored an artifact, a
\* replay whose save was rejected has appended nothing: the log holds one
\* event for each of the six stored artifacts.
C20_Witness ==
    /\ res.op = "replay"
    /\ res.error = "FileExistsError"
    /\ Cardinality(DOMAIN files) = 6
    /\ Len(telemetry) = 6
    /\ \A i \in 1..5 : telemetry[i].stage = TelemetryStage(PipelineOrder[i])
    /\ telemetry[6].output_artifact_id \in DOMAIN files

\* C21: the telemetry event appended by a stage that a replay ran names the
\* replayed artifact in replay_of, and the event of a stage of an ingest has
\* no replay_of.
C21_ReplayLinkage ==
    /\ ReplaySucceeded(res)
         => telemetry[Len(telemetry)].replay_of = res.arg
    /\ (res.op = "ingest" /\ res.error = "")
         => telemetry[Len(telemetry)].replay_of = NoneId

\* C22: a replay or a lineage of an id that does not end in _v<N> ends with
\* an InvalidId error raised to the caller, and returns no artifact.
C22_InvalidId ==
    (res.op \in { "replay", "lineage" } /\ ~HasVersionSuffix(res.arg))
      => /\ res.outcome = "raise"
         /\ res.error = "InvalidId"
         /\ res.out = NoArtifact

\* the artifact types, and the characters of each as they would stand at the
\* head of an id
ArtifactTypes ==
    { "transcript", "extraction", "contextualized_extraction", "insight",
      "validated_insight" }

TypeChars(type) ==
    CASE type = "contextualized_extraction" -> << "contextualized", "_", "extraction" >>
      [] type = "validated_insight" -> << "validated", "_", "insight" >>
      [] OTHER -> << type >>

\* C23: the id of every artifact that an ingest or a replay persists is the
\* artifact's type, followed by _, a date, _, the run id, _v and the
\* artifact's version.
C23_IdNamesType ==
    (res.op \in { "ingest", "replay" } /\ res.out # NoArtifact) =>
        /\ res.out.artifact_id \in DOMAIN files
        /\ res.out.type \in ArtifactTypes
        /\ \E date \in Dates, run_id \in RunIds :
              res.out.artifact_id =
                  TypeChars(res.out.type) \o << "_", date, "_" >> \o run_id
                      \o << "_", "v" >> \o Digits(res.out.version)

\* C24: the id of every persisted artifact ends in _v<N>, and N is the
\* artifact's version field.
C24_IdVersionIsVersion ==
    \A id \in DOMAIN files :
        /\ HasVersionSuffix(id)
        /\ VersionOf(id) = Stored(id).version

\* C24 witness: the replay of a replayed version has stored version 3 under
\* an id that ends in _v3.
C24_Witness ==
    /\ ReplaySucceeded(res)
    /\ res.out.artifact_id \in DOMAIN files
    /\ Stored(res.out.artifact_id).version = 3
    /\ VersionOf(res.out.artifact_id) = 3
    /\ VersionOf(res.arg) = 2

\* C25: every persisted artifact has at most one derived_from entry; it has
\* none exactly when it is the transcript that the normalize of an ingest
\* built, and one otherwise, a transcript built by a replay included.
C25_OneParent ==
    \A id \in DOMAIN files :
        LET artifact == Stored(id) IN
        /\ Len(artifact.derived_from) <= 1
        /\ (artifact.derived_from = << >>)
             <=> (artifact.type = "transcript" /\ artifact.version = 1)

\* C25 witness: a replay of normalize has stored a transcript whose only
\* parent is the root transcript, which has none.
C25_Witness ==
    /\ ReplaySucceeded(res)
    /\ res.stage = "normalize"
    /\ res.out.artifact_id \in DOMAIN files
    /\ Stored(res.out.artifact_id).type = "transcript"
    /\ Stored(res.out.artifact_id).derived_from = << res.arg >>
    /\ Stored(res.arg).derived_from = << >>

\* C26: every artifact that normalize stores has confidence 0.95 and every
\* artifact that extract stores has confidence 0.85, in an ingest as in a
\* replay, whatever the stage was given.
C26_ConstantConfidence ==
    (res.op \in { "ingest", "replay" } /\ res.out # NoArtifact) =>
        /\ res.out.artifact_id \in DOMAIN files
        /\ res.stage = "normalize"
             => /\ res.out.confidence = 95
                /\ Stored(res.out.artifact_id).confidence = 95
        /\ res.stage = "extract"
             => /\ res.out.confidence = 85
                /\ Stored(res.out.artifact_id).confidence = 85

\* C26 witness: the replay of extract on the extraction of version 1 has
\* stored version 2 with confidence 0.85, built from a transcript of
\* confidence 0.95.
C26_Witness ==
    /\ ReplaySucceeded(res)
    /\ res.stage = "extract"
    /\ res.arg[1] = "extraction"
    /\ VersionOf(res.arg) = 1
    /\ VersionOf(res.out.artifact_id) = 2
    /\ res.input.confidence = 95
    /\ Stored(res.out.artifact_id).confidence = 85

\* C27: the artifact that contextualize builds from an input of confidence
\* base, with n entries in its referenced_context, has and is stored with the
\* confidence min(base + 0.02 n, 0.95), for every base in hundredths and
\* every n up to the bound.
C27_ContextConfidence ==
    (res.op = "stage" /\ res.stage = "contextualize") =>
        LET base == res.input.confidence
            n == Len(res.out.referenced_context)
        IN /\ res.error = ""
           /\ n + 1 = Len(contexts)
           /\ res.out.confidence = Min(base + 2 * n, 95)
           /\ Stored(res.out.artifact_id).confidence = Min(base + 2 * n, 95)

\* C27 witness: base 0.85 and three referenced contexts gave 0.91.
C27_Witness ==
    /\ res.op = "stage"
    /\ res.stage = "contextualize"
    /\ res.input.confidence = 85
    /\ Len(res.out.referenced_context) = 3
    /\ Stored(res.out.artifact_id).confidence = 91

\* C28: the artifact that insight builds from an input of confidence base has
\* and is stored with the confidence max(base - 0.03, 0.70), for every base
\* in hundredths.
C28_InsightConfidence ==
    (res.op = "stage" /\ res.stage = "insight") =>
        LET base == res.input.confidence IN
        /\ res.error = ""
        /\ res.out.confidence = Max(base - 3, 70)
        /\ Stored(res.out.artifact_id).confidence = Max(base - 3, 70)

\* C28 witness: an input of confidence 0.72 gave the floor 0.70, which is not
\* the input less 0.03.
C28_Witness ==
    /\ res.op = "stage"
    /\ res.stage = "insight"
    /\ res.input.confidence = 72
    /\ Stored(res.out.artifact_id).confidence = 70

\* the score that C29 claims for an input artifact
ClaimedScore(input) ==
    Max(input.confidence
          - (IF \E i \in 1..Len(input.content.risk_flags) :
                   input.content.risk_flags[i] = "low_confidence"
               THEN 5 ELSE 0)
          - (IF input.referenced_context = << >> THEN 5 ELSE 0),
        60)

\* C29: the artifact that validate builds from an input of confidence c has
\* the score max(c - 0.05 [low_confidence is a risk flag of the input]
\* - 0.05 [the input has no referenced context], 0.60), and is stored with
\* that one value as its confidence and as content.validation_score.
C29_ValidationScore ==
    (res.op = "stage" /\ res.stage = "validate") =>
        LET stored == Stored(res.out.artifact_id) IN
        /\ res.error = ""
        /\ res.out.confidence = ClaimedScore(res.input)
        /\ res.out.content.validation_score = ClaimedScore(res.input)
        /\ "validation_score" \in stored.content.keys
        /\ stored.confidence = ClaimedScore(res.input)
        /\ stored.content.validation_score = ClaimedScore(res.input)

\* C29 witness: confidence 0.70 with the flag and no context gave 0.60, as
\* confidence and as validation score.
C29_Witness ==
    /\ res.op = "stage"
    /\ res.stage = "validate"
    /\ res.input.confidence = 70
    /\ res.input.content.risk_flags = << "low_confidence" >>
    /\ res.input.referenced_context = << >>
    /\ Stored(res.out.artifact_id).confidence = 60
    /\ Stored(res.out.artifact_id).content.validation_score = 60

\* C30: a stored artifact of type validated_insight, which is what validate
\* builds, has status validated if its validation score is at least 0.85 and
\* review_required otherwise; a stored artifact of any other type, built by
\* another stage, has status draft.
C30_StatusDerivation ==
    \A id \in DOMAIN files :
        LET artifact == Stored(id) IN
        /\ (res.op = "stage" /\ res.out # NoArtifact /\ res.out.artifact_id = id)
             => (res.stage = "validate") <=> (artifact.type = "validated_insight")
        /\ artifact.type = "validated_insight"
             => artifact.status =
                  IF artifact.content.validation_score >= 85
                  THEN "validated" ELSE "review_required"
        /\ artifact.type # "validated_insight" => artifact.status = "draft"

\* C30 witness: validate has stored an artifact whose score is exactly 0.85,
\* with status validated.
C30_Witness ==
    /\ res.op = "stage"
    /\ res.stage = "validate"
    /\ res.out.artifact_id \in DOMAIN files
    /\ Stored(res.out.artifact_id).content.validation_score = 85
    /\ Stored(res.out.artifact_id).status = "validated"

\* C31: the artifact that validate builds and stores has content
\* hallucination_risk "medium" if the referenced_context of its input is
\* empty or the confidence of its input is below 0.80, and "low" otherwise;
\* no other value occurs.
C31_HallucinationRisk ==
    (res.op = "stage" /\ res.stage = "validate") =>
        LET stored == Stored(res.out.artifact_id)
            claimed == IF res.input.referenced_context = << >>
                          \/ res.input.confidence < 80
                       THEN "medium" ELSE "low"
        IN /\ res.error = ""
           /\ "hallucination_risk" \in stored.content.keys
           /\ res.out.content.hallucination_risk = claimed
           /\ stored.content.hallucination_risk = claimed
           /\ stored.content.hallucination_risk \in { "medium", "low" }

\* C31 witness: an input with a referenced context and confidence 0.79 was
\* stored with risk medium.
C31_Witness ==
    /\ res.op = "stage"
    /\ res.stage = "validate"
    /\ res.input.referenced_context # << >>
    /\ res.input.confidence = 79
    /\ Stored(res.out.artifact_id).content.hallucination_risk = "medium"

\* C32: in every persisted artifact, whichever stage built it, in an ingest
\* or in a replay, stage_metadata retrieval_ids is the same list, in the same
\* order, as referenced_context.
C32_RetrievalIdsAreContext ==
    \A id \in DOMAIN files :
        Stored(id).stage_metadata.retrieval_ids = Stored(id).referenced_context

\* C32 witness: a replay of contextualize has stored an artifact that refers
\* to two context documents, in the order of their retrieval, and the
\* artifact of the ingest, built from another context directory, to one.
C32_Witness ==
    /\ ReplaySucceeded(res)
    /\ res.stage = "contextualize"
    /\ res.out.artifact_id \in DOMAIN files
    /\ Stored(res.out.artifact_id).referenced_context
          = << "ctx_finance", "ctx_budget" >>
    /\ Stored(res.out.artifact_id).stage_metadata.retrieval_ids
          = << "ctx_finance", "ctx_budget" >>
    /\ Stored(res.arg).referenced_context = << "ctx_budget" >>

\* C33: the artifact that insight or validate builds and stores, in an ingest
\* or in a replay, has the referenced_context of its input artifact; a
\* completed ingest has stored a contextualized, an insight and a validated
\* artifact with one and the same referenced_context, and a transcript and an
\* extraction with an empty one.
C33_ContextCarried ==
    /\ (/\ res.op \in { "ingest", "replay" }
        /\ res.out # NoArtifact
        /\ res.stage \in { "insight", "validate" })
          => /\ res.out.referenced_context = res.input.referenced_context
             /\ Stored(res.out.artifact_id).referenced_context
                   = res.input.referenced_context
    /\ (res.op = "ingest" /\ res.outcome = "return")
          => /\ Len(res.arts) = 5
             /\ \A k \in 1..5 : res.arts[k].artifact_id \in DOMAIN files
             /\ \A k \in 1..2 :
                   /\ res.arts[k].referenced_context = << >>
                   /\ Stored(res.arts[k].artifact_id).referenced_context = << >>
             /\ \A k \in 4..5 :
                   /\ res.arts[k].referenced_context
                         = res.arts[3].referenced_context
                   /\ Stored(res.arts[k].artifact_id).referenced_context
                         = Stored(res.arts[3].artifact_id).referenced_context

\* C33 witness: a completed ingest whose validated artifact is stored with
\* the two context ids that its contextualized artifact retrieved.
C33_Witness ==
    /\ res.op = "ingest"
    /\ res.outcome = "return"
    /\ res.arts[3].referenced_context = << "ctx_finance", "ctx_budget" >>
    /\ Stored(res.arts[5].artifact_id).referenced_context
          = << "ctx_finance", "ctx_budget" >>
    /\ Stored(res.arts[1].artifact_id).referenced_context = << >>

\* C34: a stage call, in an ingest or in a replay, leaves its input artifact
\* as it was: the file of the input is the same after the call, and the
\* artifacts that run_pipeline holds from the earlier stages are the same
\* after the call; the content of the artifact that contextualize returns
\* and stores is the content of its input.
C34_InputUntouched ==
    [][ (res'.op \in { "ingest", "replay" } /\ res'.input # NoArtifact) =>
          /\ res'.input.artifact_id \in DOMAIN files
          /\ res'.input.artifact_id \in DOMAIN files'
          /\ files'[res'.input.artifact_id] = files[res'.input.artifact_id]
          /\ from_dict(json_load(files'[res'.input.artifact_id].data))
                = res'.input
          /\ res'.op = "ingest" =>
                /\ res'.input = pipe.arts[Len(pipe.arts)]
                /\ \A k \in 1..Len(pipe.arts) : res'.arts[k] = pipe.arts[k]
          /\ (res'.stage = "contextualize" /\ res'.out # NoArtifact) =>
                /\ res'.out.content = res'.input.content
                /\ from_dict(json_load(files'[res'.out.artifact_id].data)).content
                      = res'.input.content ]_vars

\* C34 witness: contextualize has stored an artifact with the three content
\* keys of the extraction it was given, which is stored as given.
C34_Witness ==
    /\ res.op = "ingest"
    /\ res.stage = "contextualize"
    /\ res.out # NoArtifact
    /\ res.input.type = "extraction"
    /\ Stored(res.input.artifact_id) = res.input
    /\ Stored(res.out.artifact_id).content.keys
          = { "summary", "tasks", "decisions" }
    /\ Stored(res.out.artifact_id).content.decisions = << "d1" >>

\* C35: the artifact that insight builds and stores has low_confidence among
\* its risk_flags exactly when the confidence of its input is below 0.88, and
\* no other flag; the artifact that validate builds and stores has the
\* risk_flags of its input.
C35_RiskFlags ==
    /\ (res.op = "stage" /\ res.stage = "insight") =>
          LET flags == Stored(res.out.artifact_id).content.risk_flags IN
          /\ res.error = ""
          /\ "risk_flags" \in Stored(res.out.artifact_id).content.keys
          /\ res.out.content.risk_flags = flags
          /\ (\E i \in 1..Len(flags) : flags[i] = "low_confidence")
                <=> res.input.confidence < 88
          /\ flags \in { << >>, << "low_confidence" >> }
    /\ (res.op = "stage" /\ res.stage = "validate") =>
          /\ res.error = ""
          /\ "risk_flags" \in res.input.content.keys
          /\ "risk_flags" \in Stored(res.out.artifact_id).content.keys
          /\ res.out.content.risk_flags = res.input.content.risk_flags
          /\ Stored(res.out.artifact_id).content.risk_flags
                = res.input.content.risk_flags

\* C35 witness: insight has stored an artifact without a flag for an input
\* of confidence exactly 0.88.
C35_Witness ==
    /\ res.op = "stage"
    /\ res.stage = "insight"
    /\ res.input.confidence = 88
    /\ res.out.artifact_id \in DOMAIN files
    /\ Stored(res.out.artifact_id).content.risk_flags = << >>

\* C36: the artifact that a replay produces has the type of the artifact
\* that was replayed, whatever stage name was passed, and all the stored
\* versions of one family have one type.
C36_ReplayKeepsType ==
    /\ ReplaySucceeded(res) =>
          /\ res.out.type = res.original.type
          /\ Stored(res.out.artifact_id).type = Stored(res.arg).type
    /\ \A id1, id2 \in DOMAIN files :
          StripVersion(id1) = StripVersion(id2)
            => Stored(id1).type = Stored(id2).type

\* C37: the version history that lineage reports for an artifact holds the
\* ids of exactly the stored artifacts of its family, those whose id without
\* the trailing _v<N> is the id of the artifact without its trailing _v<N>,
\* and no id of another run.
C37_HistoryIsFamily ==
    (res.op = "lineage" /\ res.outcome = "return") =>
        /\ { res.ids[i] : i \in 1..Len(res.ids) }
              = { id \in DOMAIN files :
                    StripVersion(id) = StripVersion(res.arg) }
        /\ \A i \in 1..Len(res.ids) : RunIdOf(res.ids[i]) = RunIdOf(res.arg)

\* the stored ids of the family of an id
FamilyOf(id) == { other \in DOMAIN files : StripVersion(other) = StripVersion(id) }

\* C38: in every state that ingests and replays of one process reach, the
\* versions stored of each family are 1..k for some k >= 1, each once: every
\* stored id of version N has the version field N and stored family members
\* of every version below N, and two stored ids of one family differ in
\* their version.  A replay adds an artifact only if no stored member of the
\* family of its target has a higher version than the target.
C38_VersionsContiguous ==
    /\ [](\A id \in DOMAIN files :
            /\ VersionOf(id) >= 1
            /\ Stored(id).version = VersionOf(id)
            /\ \A v \in 1..VersionOf(id) :
                  \E other \in FamilyOf(id) : Stored(other).version = v
            /\ \A other \in FamilyOf(id) :
                  other # id => Stored(other).version # Stored(id).version)
    /\ [][ (res'.op = "replay" /\ DOMAIN files' # DOMAIN files) =>
             /\ res'.arg \in DOMAIN files
             /\ \A other \in FamilyOf(res'.arg) :
                   VersionOf(other) <= VersionOf(res'.arg)
             /\ DOMAIN files' = DOMAIN files \cup { ReplayId(res'.original) }
             /\ VersionOf(ReplayId(res'.original)) = VersionOf(res'.arg) + 1
             /\ StripVersion(ReplayId(res'.original)) = StripVersion(res'.arg) ]_vars

\* C38 witness: a family holds the versions 1, 2 and 3, the last one added by
\* a replay of version 2, and another family holds version 1 alone.
C38_Witness ==
    /\ ReplaySucceeded(res)
    /\ VersionOf(res.arg) = 2
    /\ { Stored(id).version : id \in FamilyOf(res.arg) } = { 1, 2, 3 }
    /\ Cardinality(FamilyOf(res.arg)) = 3
    /\ \E id \in DOMAIN files : Cardinality(FamilyOf(id)) = 1

\* C39: the validated artifact of a completed ingest, whose
\* referenced_context names n context documents, is stored with status
\* validated if n >= 2 and review_required if n is 0 or 1; the confidence
\* that insight was given less 0.03 is above 0.70, and the confidence that
\* validate was given less its deductions is above 0.60, so that neither
\* floor applies.
C39_IngestStatus ==
    (res.op = "ingest" /\ res.outcome = "return") =>
        LET final == Stored(res.arts[5].artifact_id)
            n == Len(final.referenced_context)
            flagged == \E i \in 1..Len(res.arts[4].content.risk_flags) :
                          res.arts[4].content.risk_flags[i] = "low_confidence"
        IN /\ final = res.arts[5]
           /\ final.type = "validated_insight"
           /\ n + 1 = Len(contexts)
           /\ n >= 2 => final.status = "validated"
           /\ n <= 1 => final.status = "review_required"
           /\ res.arts[3].confidence - 3 > 70
           /\ res.arts[4].confidence = res.arts[3].confidence - 3
           /\ res.arts[4].confidence - (IF flagged THEN 5 ELSE 0)
                 - (IF n = 0 THEN 5 ELSE 0) > 60
           /\ final.confidence
                 = res.arts[4].confidence - (IF flagged THEN 5 ELSE 0)
                     - (IF n = 0 THEN 5 ELSE 0)

\* C39 witness: a completed ingest with one referenced context document has
\* stored a final artifact of score 0.79 with status review_required.
C39_Witness ==
    /\ res.op = "ingest"
    /\ res.outcome = "return"
    /\ Len(Stored(res.arts[5].artifact_id).referenced_context) = 1
    /\ Stored(res.arts[5].artifact_id).confidence = 79
    /\ Stored(res.arts[5].artifact_id).status = "review_required"

\* C40: with the context directory as it was at the ingest, a replay of a
\* version-1 artifact of an ingest with the stage that produced it, one of
\* extract, contextualize, insight and validate, succeeds and stores a
\* version-2 artifact whose type, content, confidence, status and
\* referenced_context are those of the replayed artifact.
C40_ReplayReproduces ==
    [][ (/\ res'.op = "replay"
         /\ res'.arg \in DOMAIN files
         /\ VersionOf(res'.arg) = 1
         /\ res'.stage = FamilyStage(res'.arg)
         /\ res'.stage \in { "extract", "contextualize", "insight", "validate" }
         /\ ReplayId(Stored(res'.arg)) \notin DOMAIN files)
          => /\ ReplaySucceeded(res')
             /\ res'.out.artifact_id \in DOMAIN files'
             /\ LET new == from_dict(json_load(files'[res'.out.artifact_id].data))
                    old == Stored(res'.arg)
                IN /\ new = res'.out
                   /\ new.version = 2
                   /\ new.type = old.type
                   /\ new.content = old.content
                   /\ new.confidence = old.confidence
                   /\ new.status = old.status
                   /\ new.referenced_context = old.referenced_context ]_vars

\* C40 witness: the replay of validate on the validated artifact of an ingest
\* with one context document has stored version 2 with the score 0.79 and
\* the status review_required of version 1.
C40_Witness ==
    /\ ReplaySucceeded(res)
    /\ res.stage = "validate"
    /\ VersionOf(res.arg) = 1
    /\ Stored(res.out.artifact_id).version = 2
    /\ Stored(res.arg).status = "review_required"
    /\ Stored(res.out.artifact_id).status = "review_required"
    /\ Stored(res.out.artifact_id).content.validation_score = 79
    /\ Stored(res.out.artifact_id).content = Stored(res.arg).content
    /\ Stored(res.out.artifact_id).referenced_context = << "ctx_a" >>

====
